---- MODULE Spec2Model ----
(***************************************************************************)
(* Model of the source acquisition and caching core of openaddr:           *)
(*   - DownloadTask.from_type_string, guess_url_file_extension,            *)
(*     URLDownloadTask.download                  (src/openaddr/cache.py)   *)
(*   - EsriRestDownloadTask.download / get_bbox  (src/openaddr/cache.py)   *)
(*   - compare_cache_details                     (src/openaddr/cache.py)   *)
(*   - cache()                                   (src/openaddr/__init__.py)*)
(***************************************************************************)
EXTENDS Integers, Sequences, FiniteSets, TLC

(***************************************************************************)
(* Bounds of the model.                                                    *)
(***************************************************************************)
\* object-ids of a layer are drawn from 1..MaxFeatures
MaxFeatures == 3
\* feature coordinates are drawn from 0..GridMax in x and in y
GridMax == 1
\* maxRecordCount of the layer metadata is drawn from 1..MaxCap
MaxCap == 2
\* a lone session makes at most MaxRuns calls of cache() in turn
MaxRuns == 2
\* each of two concurrent sessions makes at most MaxRaceRuns calls of cache()
MaxRaceRuns == 1
\* download() is given at most MaxUrls source URLs
MaxUrls == 2
\* a task is asked to download at most MaxCalls times
MaxCalls == 2
\* the layers tried with every metadata answer have at most MaxSmall features
MaxSmall == 2
\* runs given to iterate_local_processed_files
MaxIterRuns == 2

(***************************************************************************)
(* Program constants.                                                      *)
(***************************************************************************)
\* cache.py:419   tries = 3
Tries == 3
\* __init__.py:227-235   the calls of download_processed_file for one run
DownloadTries == 3
\* cache.py:373   metadata.get('maxRecordCount', 500)
DefaultMaxRecordCount == 500

VARIABLES
    \* ---- one ESRI acquisition (one source_url of download()) ----
    layer,             \* the remote feature layer: object-id -> point [x, y],
                       \* the centroid of the feature
    shape,             \* object-id -> what the geometry of the feature is like
    max_record_count,  \* cache.py:373
    extent,            \* cache.py:392, the reprojected extent
    stack,             \* bboxes of the get_bbox calls still to run, depth first
    tries,             \* cache.py:419, local of the running get_bbox call
    response,          \* cache.py:422, the response the code reads after the loop
    fetched_ids,       \* cache.py:524
    rows,              \* returned_data of all calls so far, in merge order
    skipped,           \* number of features passed over at cache.py:469-470
    pc,                \* position of the acquisition
    metadata,          \* cache.py:336-343, what the layer answers to f=json
    csv,               \* cache.py:520-547, the output file of the acquisition
    no_geometry,       \* object-ids of the features the layer serves without
                       \* a 'geometry' key
    err,               \* exception type that ended the acquisition
    \* ---- the acquisition sessions cache() and the result store ----
    procs,             \* the sessions that run, one per source
    files,             \* the filesystem: absolute path -> bytes of the file
    dirs,              \* the filesystem: absolute paths of the directories
    cpc,               \* position of each session
    runs,              \* number of cache() calls each session has begun
    workdir,           \* __init__.py:90, the scratch directory of the call
    filepath,          \* __init__.py:111, the artifact path of the call
    artifact,          \* the bytes the download left at filepath, or Missing
    data,              \* __init__.py:93, the declared data of the call
    fingerprint,       \* cache.py:75, local of compare_cache_details
    dir_seen,          \* cache.py:88, what exists(resultdir) answered
    result,            \* cache.py:84/94, the pair returned
    cache_result,      \* __init__.py:122-125, the CacheResult cache() returned
    cerr,              \* exception type that ended the call
    ops,               \* changes the call has made to the result store, in order:
                       \* "mkdir", and the move as "create" or "replace"
    \* ---- the download tasks: from_type_string and download() ----
    type_string,       \* cache.py:105, argument of from_type_string
    source_prefix,     \* cache.py:105, argument of from_type_string
    task,              \* the task from_type_string returned
    source_urls,       \* cache.py:224/316, argument of download()
    url_i,             \* position of the loop over source_urls, from 1
    file_path,         \* cache.py:230/323, destination of the URL at hand
    output_files,      \* cache.py:225/317
    downloads,         \* the files of {workdir}/http and {workdir}/esri: path -> bytes
    net,               \* number of requests the running call has sent
    status,            \* cache.py:252, status of the response to the transfer
                       \* request of the URL at hand, 0 without one
    calls,             \* number of download() calls begun
    probe,             \* what the call of guess_url_file_extension for the URL
                       \* at hand came to (cache.py:219)
    given,             \* what the URL answers to a call of
                       \* guess_url_file_extension made on its own
    dpc,               \* position of the task
    derr,              \* exception type that ended the call
    \* ---- process_one.process(): one source, cache to state file ----
    source_json,       \* what the source file holds
    do_preview,        \* process_one.py:33, argument
    mapzen_key,        \* process_one.py:33, argument: a key is given
    logger_handlers,   \* the handlers of logging.getLogger('openaddr')
    temp_dir,          \* process_one.py:38, the directory exists
    cache_res,         \* process_one.py:45/56, cache_result
    conform_result,    \* process_one.py:45/72, the path of the ConformResult
    preview_path,      \* process_one.py:46/80
    slippymap_path,    \* process_one.py:46/83
    skipped_source,    \* process_one.py:46/90
    invoked,           \* the stages process() has called
    raised,            \* the stage that raised inside the try and the
                       \* exception type, process_one.py:48-99
    state,             \* the state write_state has written, process_one.py:233-255
    state_path,        \* process_one.py:101, what process() returned
    ppc,               \* position of process()
    perr,              \* exception type process() ended with
    \* ---- iterate_local_processed_files: processed files of runs ----
    run_list,          \* __init__.py:208, argument runs
    sorted_runs,       \* __init__.py:218, the runs in the order of the loop
    run_i,             \* position of the loop over the sorted runs, from 1
    attempt,           \* number of download_processed_file calls for the run
    filename,          \* __init__.py:227, the file of the run at hand
    temp_files,        \* the processed-* files of the temporary directory
    yielded,           \* ids of the runs a result was yielded for, in order
    ipc,               \* position of the generator
    ierr               \* exception type the generator ended with

esriVars == <<layer, max_record_count, extent, stack, tries, response,
              fetched_ids, rows, skipped, pc, err, metadata, csv, no_geometry,
              shape>>

cacheVars == <<procs, files, dirs, cpc, runs, workdir, filepath, artifact, data,
               fingerprint, dir_seen, result, cache_result, cerr, ops>>

dlVars == <<type_string, source_prefix, task, source_urls, url_i, file_path,
            output_files, downloads, net, status, calls, probe, given, dpc, derr>>

procVars == <<source_json, do_preview, mapzen_key, logger_handlers, temp_dir,
              cache_res, conform_result, preview_path, slippymap_path,
              skipped_source, invoked, raised, state, state_path, ppc, perr>>

iterVars == <<run_list, sorted_runs, run_i, attempt, filename, temp_files, yielded,
              ipc, ierr>>

\* what runs after the acquisition
batchVars == <<procVars, iterVars>>

vars == <<esriVars, cacheVars, dlVars, batchVars>>

(***************************************************************************)
(* Exact arithmetic on the coordinates.  A coordinate is a fraction        *)
(* <<n, d>> with d > 0 in lowest terms; the grid coordinates are the       *)
(* integers <<k, 1>>.  float(sum) / len of cache.py:490 is the fraction    *)
(* sum/len: on the small integers of the model the float quotient orders   *)
(* and compares like the exact quotient.                                   *)
(***************************************************************************)
RECURSIVE GCD(_, _)
GCD(a, b) == IF b = 0 THEN a ELSE GCD(b, a % b)

Frac(n, d) == LET g == GCD(n, d) IN IF g = 0 THEN <<0, 1>> ELSE <<n \div g, d \div g>>

Whole(k) == <<k, 1>>

\* a <= b on fractions
Leq(a, b) == a[1] * b[2] <= b[1] * a[2]

\* sum(f[X_FIELDNAME] for f in returned_data), sum(f[Y_FIELDNAME] ...)
RECURSIVE SumX(_)
SumX(rs) == IF rs = <<>> THEN 0 ELSE Head(rs).X + SumX(Tail(rs))

RECURSIVE SumY(_)
SumY(rs) == IF rs = <<>> THEN 0 ELSE Head(rs).Y + SumY(Tail(rs))

\* ascending sequence of a finite set of integers
RECURSIVE SortedSeq(_)
SortedSeq(S) ==
    IF S = {} THEN <<>>
    ELSE LET m == CHOOSE x \in S : \A y \in S : x <= y
         IN <<m>> \o SortedSeq(S \ {m})

(***************************************************************************)
(* The remote server.                                                      *)
(***************************************************************************)
Oids == 1..MaxFeatures
Coords == 0..GridMax
Points == [x : Coords, y : Coords]

\* What the geometry of a feature is like: "point", a point or a geometry no
\* larger than a grid point; "ring", a polygon whose ring has too few points,
\* all at one grid point; "wide", a polygon or polyline that reaches one grid
\* unit to the left and to the right of its centroid.
Shapes == {"point", "ring", "wide"}

\* GetEnvelope of the geometry of feature o (cache.py:480)
Envelope(o) ==
    LET reach == IF shape[o] = "wide" THEN 1 ELSE 0
    IN [xmin |-> layer[o].x - reach, xmax |-> layer[o].x + reach,
        ymin |-> layer[o].y,         ymax |-> layer[o].y]

\* The features whose geometry meets the closed envelope bbox
\* (geometryType=esriGeometryEnvelope, default spatial relation: intersects).
Matching(bbox) ==
    {o \in DOMAIN layer :
        /\ Leq(bbox.xmin, Whole(Envelope(o).xmax)) /\ Leq(Whole(Envelope(o).xmin), bbox.xmax)
        /\ Leq(bbox.ymin, Whole(Envelope(o).ymax)) /\ Leq(Whole(Envelope(o).ymin), bbox.ymax)}

\* What a query of bbox may return.  The server caps a response at
\* maxRecordCount features (the page-size ceiling the tiling works around):
\* every matching feature when they fit in a page, else any maxRecordCount of
\* them.
Min(a, b) == IF a <= b THEN a ELSE b

ServerChoices(bbox) ==
    LET m == Matching(bbox)
    IN {R \in SUBSET m : Cardinality(R) = Min(Cardinality(m), max_record_count)}

\* The responses the server may give to one tile query.
OkResponses(bbox) ==
    {[status |-> 200, body |-> "features", features |-> R] : R \in ServerChoices(bbox)}

FailedResponses(bbox) ==
    {[status |-> 500, body |-> "features", features |-> R] : R \in ServerChoices(bbox)}
    \cup {[status |-> s, body |-> b, features |-> {}] :
             s \in {200, 500}, b \in {"garbage", "error"}}

NoResponse == [status |-> 0, body |-> "none", features |-> {}]

(***************************************************************************)
(* get_bbox, cache.py:402-518                                              *)
(***************************************************************************)
\* cache.py:427-438: the response raises DownloadError inside the retry loop
IsFailure(r) == r.status # 200 \/ r.body \in {"garbage", "error"}

\* LoopAgain when the loop gives up after two attempts
LoopAgainOnce(t) == t >= 2

\* cache.py:420: the loop condition
LoopAgain(t) == t >= 0

\* cache.py:474-484: the row of feature o.  X and Y are those of the centroid,
\* and when Centroid() raises for a ring of too few points, the middle of the
\* envelope (xmin/2 + xmax/2, ymin/2 + ymax/2).
RowOf(o) ==
    [oid |-> o,
     X |-> IF shape[o] = "ring"
           THEN (Envelope(o).xmin + Envelope(o).xmax) \div 2 ELSE layer[o].x,
     Y |-> IF shape[o] = "ring"
           THEN (Envelope(o).ymin + Envelope(o).ymax) \div 2 ELSE layer[o].y]

\* NewRows without the test of cache.py:469-470
NewRowsUnchecked(R, seen) ==
    LET new == SortedSeq(R)
    IN [i \in DOMAIN new |-> RowOf(new[i])]

\* cache.py:465-486: the rows a response adds, in response order
NewRows(R, seen) ==
    LET new == SelectSeq(SortedSeq(R), LAMBDA o : o \notin seen)
    IN [i \in DOMAIN new |-> RowOf(new[i])]

\* MustSplit with > for >=
MustSplitStrict(count) == count > max_record_count

\* cache.py:488: the subdivision test
MustSplit(count) == count >= max_record_count

\* MeanX when the pivot is at the first of the rows
MeanXOfFirst(rs) == Whole(Head(rs).X)

\* cache.py:490-491
MeanX(rs) == Frac(SumX(rs), Len(rs))
MeanY(rs) == Frac(SumY(rs), Len(rs))

\* PivotDefined when an empty returned_data is given a pivot instead
PivotAlways(rs) == TRUE

\* cache.py:490-491: the division by len(returned_data) is defined
PivotDefined(rs) == Len(rs) # 0

\* Quadrants when the box is split at its centre
QuadrantsAtCentre(bbox, mx, my) ==
    LET cx == Frac(bbox.xmin[1] * bbox.xmax[2] + bbox.xmax[1] * bbox.xmin[2],
                   2 * bbox.xmin[2] * bbox.xmax[2])
        cy == Frac(bbox.ymin[1] * bbox.ymax[2] + bbox.ymax[1] * bbox.ymin[2],
                   2 * bbox.ymin[2] * bbox.ymax[2])
    IN << [xmin |-> bbox.xmin, ymin |-> bbox.ymin, xmax |-> cx,        ymax |-> cy],
          [xmin |-> cx,        ymin |-> bbox.ymin, xmax |-> bbox.xmax, ymax |-> cy],
          [xmin |-> bbox.xmin, ymin |-> cy,        xmax |-> cx,        ymax |-> bbox.ymax],
          [xmin |-> cx,        ymin |-> cy,        xmax |-> bbox.xmax, ymax |-> bbox.ymax] >>

\* cache.py:493-516: the four child boxes, in call order
Quadrants(bbox, mx, my) ==
    << [xmin |-> bbox.xmin, ymin |-> bbox.ymin, xmax |-> mx,        ymax |-> my],
       [xmin |-> mx,        ymin |-> bbox.ymin, xmax |-> bbox.xmax, ymax |-> my],
       [xmin |-> bbox.xmin, ymin |-> my,        xmax |-> mx,        ymax |-> bbox.ymax],
       [xmin |-> mx,        ymin |-> my,        xmax |-> bbox.xmax, ymax |-> bbox.ymax] >>

\* the acquisition ends with an exception: the rows are lost to the caller
Raise(e) ==
    /\ pc' = "error"
    /\ err' = e
    /\ UNCHANGED <<stack, tries, response, fetched_ids, rows, skipped>>

\* cache.py:422: requests.get raises (connection refused, timeout, ...);
\* the exception is no DownloadError, so the retry loop does not catch it.
RequestRaises ==
    /\ pc = "request"
    /\ LoopAgain(tries)
    /\ Raise("ConnectionError")
    /\ UNCHANGED <<layer, max_record_count, extent, metadata, csv, no_geometry, shape>>
    /\ UNCHANGED cacheVars
    /\ UNCHANGED dlVars
    /\ UNCHANGED batchVars

\* cache.py:420-443: one pass of the retry loop for the tile on top of the
\* stack: the request, tries = tries - 1, and either break (a good response)
\* or DownloadError, caught, sleep, and the loop condition again.  A response
\* that is retried is overwritten by the next pass before anything reads it,
\* so only the response that leaves the loop is kept.
Request ==
    /\ pc = "request"
    /\ LoopAgain(tries)
    /\ \E r \in OkResponses(Head(stack)) \cup FailedResponses(Head(stack)) :
          /\ tries' = tries - 1
          /\ IF IsFailure(r) /\ LoopAgain(tries - 1)
             THEN pc' = "request" /\ response' = NoResponse
             ELSE pc' = "process" /\ response' = r
    /\ UNCHANGED <<layer, max_record_count, extent, stack, fetched_ids, rows,
                   skipped, err, metadata, csv, no_geometry, shape>>
    /\ UNCHANGED cacheVars
    /\ UNCHANGED dlVars
    /\ UNCHANGED batchVars

\* cache.py:286-301: the geometry types build_ogr_geometry converts
SupportedGeometry ==
    {"esriGeometryPoint", "esriGeometryMultipoint", "esriGeometryPolygon",
     "esriGeometryPolyline"}

\* cache.py:465-472 with 271-301: build_ogr_geometry is called, outside any
\* try, for each feature of the response that is not in fetched_ids, in the
\* order of the response.  It raises TypeError for a feature without a
\* 'geometry' key and KeyError for a geometry type it does not convert (the
\* response states the type of the layer).  The exception of the first such
\* feature, or "none".
GeometryError(unseen) ==
    IF unseen = {} THEN "none"
    ELSE IF metadata.geometryType \notin SupportedGeometry
    THEN (IF (CHOOSE o \in unseen : \A q \in unseen : o <= q) \in no_geometry
          THEN "TypeError" ELSE "KeyError")
    ELSE IF unseen \cap no_geometry # {} THEN "TypeError"
    ELSE "none"

\* cache.py:445-518: what follows the loop, for the response it left behind.
Process ==
    /\ pc = "process"
    /\ UNCHANGED <<layer, max_record_count, extent, metadata, csv, no_geometry, shape>>
    /\ UNCHANGED cacheVars
    /\ UNCHANGED dlVars
    /\ UNCHANGED batchVars
    /\ IF response.body = "garbage"
       THEN \* cache.py:445: response.json() raises
            Raise("ValueError")
       ELSE IF response.body = "error"
       THEN \* cache.py:446-451: features is None, len(features) raises
            Raise("TypeError")
       ELSE IF GeometryError(response.features \ fetched_ids) # "none"
       THEN \* cache.py:472: the exception of build_ogr_geometry leaves get_bbox
            Raise(GeometryError(response.features \ fetched_ids))
       ELSE LET bbox == Head(stack)
                new  == NewRows(response.features, fetched_ids)
                count == Cardinality(response.features)
            IN IF MustSplit(count) /\ ~PivotDefined(new)
               THEN \* cache.py:490: division by len(returned_data) = 0
                    Raise("ZeroDivisionError")
               ELSE /\ fetched_ids' = fetched_ids \cup {new[i].oid : i \in DOMAIN new}
                    /\ rows' = rows \o new
                    /\ skipped' = skipped + (count - Len(new))
                    /\ stack' = IF MustSplit(count)
                                THEN Quadrants(bbox, MeanX(new), MeanY(new)) \o Tail(stack)
                                ELSE Tail(stack)
                    /\ tries' = Tries
                    /\ response' = NoResponse
                    /\ pc' = IF stack' = <<>> THEN "emit" ELSE "request"
                    /\ err' = err

\* the names of the derived columns (openaddr.conform, imported at cache.py:35)
X_FIELDNAME == "X"
Y_FIELDNAME == "Y"
GEOM_FIELDNAME == "GEOM"

\* the field lists a layer may declare, and the answers to f=json
Field(name, type) == [name |-> name, type |-> type]

FieldLists ==
    { <<>>,
      << Field("ADDR", "esriFieldTypeString") >>,
      << Field("OBJECTID", "esriFieldTypeOID"), Field("ADDR", "esriFieldTypeString") >>,
      << Field("ADDR", "esriFieldTypeString"), Field("Y", "esriFieldTypeDouble"),
         Field("FID", "esriFieldTypeOID") >>,
      << Field("OBJECTID", "esriFieldTypeOID"), Field("GEOM", "esriFieldTypeString"),
         Field("X", "esriFieldTypeDouble"), Field("Y", "esriFieldTypeDouble") >> }

\* the metadata has no 'maxRecordCount'
NoCap == 0

Metadatas ==
    [status : {200, 500}, error : BOOLEAN, fields : FieldLists,
     geometryType : {"absent", "esriGeometryPoint", "esriGeometryPolygon",
                     "esriGeometryMultiPatch"},
     extent : BOOLEAN, maxRecordCount : {NoCap} \cup 1..MaxCap]

LayerMetadata ==
    [status |-> 200, error |-> FALSE,
     fields |-> << Field("OBJECTID", "esriFieldTypeOID"),
                   Field("ADDR", "esriFieldTypeString") >>,
     geometryType |-> "esriGeometryPoint", extent |-> TRUE, maxRecordCount |-> 1]

\* the answers of a layer of points that answers well
LayerMetadatas ==
    {[LayerMetadata EXCEPT !.maxRecordCount = c] : c \in {NoCap} \cup 1..MaxCap}

\* cache.py:373
MaxRecordCount(m) ==
    IF m.maxRecordCount = NoCap THEN DefaultMaxRecordCount ELSE m.maxRecordCount

\* cache.py:352
Names(fields) == [i \in DOMAIN fields |-> fields[i].name]

InSeq(x, seq) == \E i \in DOMAIN seq : seq[i] = x

\* cache.py:353-358
AppendIfAbsent(names, name) == IF InSeq(name, names) THEN names ELSE Append(names, name)

FieldNames(fields) ==
    AppendIfAbsent(AppendIfAbsent(AppendIfAbsent(Names(fields), X_FIELDNAME),
                                  Y_FIELDNAME), GEOM_FIELDNAME)

\* cache.py:360-364
HasObjectId(fields) == \E i \in DOMAIN fields : fields[i].type = "esriFieldTypeOID"

\* the output file: not created, or its header and its data rows
NoCsv == [created |-> FALSE, header |-> <<>>, data |-> <<>>]

\* cache.py:330-397 and 520-525: the metadata request, its checks in the
\* order of the code, the extent, and the output file opened with its header
\* before get_bbox is first called.
Metadata ==
    /\ pc = "metadata"
    /\ UNCHANGED <<layer, extent, tries, response, fetched_ids,
                   rows, skipped, metadata, no_geometry, shape>>
    /\ UNCHANGED cacheVars
    /\ UNCHANGED dlVars
    /\ UNCHANGED batchVars
    /\ IF \/ metadata.status # 200          \* cache.py:338
          \/ metadata.error                 \* cache.py:346-348
          \/ metadata.fields = <<>>         \* cache.py:349-350
          \/ ~HasObjectId(metadata.fields)  \* cache.py:366-367
          \/ metadata.geometryType = "absent"   \* cache.py:369-371
       THEN /\ pc' = "error" /\ err' = "DownloadError"
            /\ UNCHANGED <<stack, csv, max_record_count>>
       ELSE IF ~metadata.extent
       THEN \* cache.py:375-379: extent is None, extent['xmin'] raises
            /\ pc' = "error" /\ err' = "TypeError"
            /\ max_record_count' = MaxRecordCount(metadata)
            /\ UNCHANGED <<stack, csv>>
       ELSE /\ max_record_count' = MaxRecordCount(metadata)
            /\ csv' = [created |-> TRUE, header |-> FieldNames(metadata.fields),
                       data |-> <<>>]
            /\ stack' = <<extent>>
            /\ pc' = "request"
            /\ err' = err

\* cache.py:273: 'geometry' not in esri_feature
HasGeometryKey(row) == "geometry" \in DOMAIN row

\* cache.py:529-545: the row as it is written
CsvRow(row) == [oid |-> row.oid, X |-> row.X, Y |-> row.Y, GEOM |-> row.geometry]

\* cache.py:527-547: fetched_data holds the attribute rows get_bbox returned;
\* build_ogr_geometry is given the row, raises TypeError for a row without
\* a 'geometry' key, and the row is passed over
WriteRows ==
    /\ pc = "emit"
    /\ csv' = [csv EXCEPT !.data =
                  LET kept == SelectSeq(rows, HasGeometryKey)
                  IN [i \in DOMAIN kept |-> CsvRow(kept[i])]]
    /\ pc' = "done"
    /\ UNCHANGED <<layer, max_record_count, extent, stack, tries, response,
                   fetched_ids, rows, skipped, err, metadata, no_geometry, shape>>
    /\ UNCHANGED cacheVars
    /\ UNCHANGED dlVars
    /\ UNCHANGED batchVars

\* position of a point in the row-major order of the grid
Rank(p) == p.x * (GridMax + 1) + p.y

\* The layers of the model: object-ids 1..n, numbered in grid order (any
\* other numbering of the same features is a renaming of this one).
Layers ==
    {l \in UNION {[1..n -> Points] : n \in 0..MaxFeatures} :
        \A i, j \in DOMAIN l : i <= j => Rank(l[i]) <= Rank(l[j])}

\* cache.py:322-336: the pass of download() for a URL whose file does not
\* exist, about to ask the layer for its metadata; ls and ms are the layers
\* and the answers considered, and flawed tells whether features without
\* geometry, and polygons with rings of too few points or reaching beyond
\* their centroid, are.  The extent reprojected (cache.py:375-397) is that of
\* the layer; max_record_count is not assigned yet.  A layer that states no
\* maxRecordCount serves pages of the default size.
InitEsriWith(ls, ms, flawed) ==
    /\ layer \in ls
    /\ metadata \in ms
    /\ no_geometry \in (IF flawed THEN SUBSET DOMAIN layer ELSE {{}})
    /\ shape \in [DOMAIN layer ->
                     IF flawed /\ metadata.geometryType = "esriGeometryPolygon"
                     THEN Shapes ELSE {"point"}]
    /\ max_record_count = 0
    /\ extent \in {[xmin |-> Whole(0), ymin |-> Whole(0),
                    xmax |-> Whole(xm), ymax |-> Whole(GridMax)] :
                      xm \in (GridMax - 1)..GridMax}
    /\ stack = <<>>
    /\ tries = Tries
    /\ response = NoResponse
    /\ fetched_ids = {}
    /\ rows = <<>>
    /\ skipped = 0
    /\ csv = NoCsv
    /\ pc = "metadata"
    /\ err = "none"

\* a layer that answers well, of any content
InitEsri == InitEsriWith(Layers, LayerMetadatas, FALSE)

\* a layer of at most MaxSmall features, some of them perhaps without
\* geometry, with any answer to f=json
InitEsriSmall == InitEsriWith({l \in Layers : Len(l) <= MaxSmall}, Metadatas, TRUE)

(***************************************************************************)
(* Paths, URLs and digests.                                                *)
(***************************************************************************)
\* the working directory of the process, and the destdir given to cache()
Cwd == <<"", "srv">>
DestDir == <<".", "out">>

\* os.path.abspath: a relative path is resolved against the working directory
Abspath(path) == IF Head(path) = "." THEN Cwd \o Tail(path) ELSE path

\* os.path.join(dir, name) and os.path.basename(path)
Join(dir, name) == Append(dir, name)
Basename(path) == path[Len(path)]

\* os.path.exists
Exists(path) == Abspath(path) \in DOMAIN files \/ Abspath(path) \in dirs

\* A URL is the text before "://" as written, and the rest.  urlparse
\* lower-cases the scheme; data.get('cache', '') of an absent key is ''.
NoCache == [scheme |-> "", rest |-> ""]
NoFingerprint == -1
LowerCase(t) ==
    CASE t = "HTTP" -> "http"
      [] t = "Ftp" -> "ftp"
      [] t = "ESRI" -> "esri"
      [] OTHER -> t
Scheme(url) == LowerCase(url.scheme)

\* The bytes of an artifact, and hashlib.md5 over them: the digest is a
\* function of the byte sequence alone, fed line by line (cache.py:77-79).
Contents == {<<7>>, <<7, 9>>}
Missing == <<-1>>

RECURSIVE Digest(_, _)
Digest(h, bytes) ==
    IF bytes = <<>> THEN h
    ELSE Digest((h * 31 + Head(bytes) + 1) % 65521, Tail(bytes))

Md5(bytes) == Digest(1, bytes)

\* The sources of the model and the destination name the download task
\* gives each (source prefix and URL hash, stable across runs).
Sources == {"a", "b"}
ArtifactName(src) == IF src = "a" THEN "a-1f3c.zip" ELSE "b-77aa.csv"

\* the declared data a caller may pass: prior cache reference and fingerprint
CacheRefs ==
    {NoCache} \cup
    {[scheme |-> t, rest |-> "s3/x"] : t \in {"http", "HTTP", "https", "file"}}

Fingerprints == {NoFingerprint} \cup {Md5(c) : c \in Contents}

\* data.get('version', None): the descriptor and the extras may carry one
NoVersion == "None"
Versions == {NoVersion, "20150101"}

Declared == [cache : CacheRefs, fingerprint : Fingerprints, version : Versions]

NoData == [cache |-> NoCache, fingerprint |-> NoFingerprint, version |-> NoVersion]

\* no CacheResult is returned
NoCacheResult == [cache |-> NoCache, fingerprint |-> NoFingerprint, version |-> NoVersion]
NoPath == <<>>
NoResult == <<>>

\* __init__.py:116
ResultDir == Join(DestDir, "cached")

(***************************************************************************)
(* cache(), __init__.py:75-125, up to the call of compare_cache_details:   *)
(* a fresh scratch directory, the download into it, the artifact path.     *)
(***************************************************************************)
SourceOf(p) == IF p = 1 THEN "a" ELSE "b"

\* the sources a session may be run for: a lone session runs any source
\* in turn, concurrent sessions run one source each
SourcesOf(p) == IF Cardinality(procs) = 1 THEN Sources ELSE {SourceOf(p)}

RunLimit == IF Cardinality(procs) = 1 THEN MaxRuns ELSE MaxRaceRuns

\* __init__.py:90: mkdtemp(prefix='cache-', dir=destdir) makes a directory
\* of a name not in use; the k-th call of session p gets this one
ScratchDir(p, k) ==
    Abspath(Join(DestDir, "cache-" \o ToString(p) \o "-" \o ToString(k)))

Acquire(p) ==
    /\ cpc[p] \in {"idle", "error"}
    /\ UNCHANGED esriVars
    /\ UNCHANGED dlVars
    /\ UNCHANGED batchVars
    /\ runs[p] < RunLimit
    /\ \E src \in SourcesOf(p), c \in Contents \cup {Missing}, d \in Declared :
          LET wd == ScratchDir(p, runs[p])
              fp == Join(Join(wd, "http"), ArtifactName(src))
          IN /\ workdir' = [workdir EXCEPT ![p] = wd]
             /\ filepath' = [filepath EXCEPT ![p] = fp]
             /\ artifact' = [artifact EXCEPT ![p] = c]
             /\ data' = [data EXCEPT ![p] = d]
             /\ files' = IF c = Missing THEN files
                         ELSE [q \in DOMAIN files \cup {fp} |-> IF q = fp THEN c ELSE files[q]]
    /\ runs' = [runs EXCEPT ![p] = @ + 1]
    /\ cpc' = [cpc EXCEPT ![p] = "exists"]
    /\ fingerprint' = [fingerprint EXCEPT ![p] = NoFingerprint]
    /\ dir_seen' = [dir_seen EXCEPT ![p] = FALSE]
    /\ dirs' = dirs \cup {ScratchDir(p, runs[p])}
    /\ result' = [result EXCEPT ![p] = NoResult]
    /\ cache_result' = [cache_result EXCEPT ![p] = NoCacheResult]
    /\ cerr' = [cerr EXCEPT ![p] = "none"]
    /\ ops' = [ops EXCEPT ![p] = <<>>]
    /\ UNCHANGED procs

\* __init__.py:90-104: the scratch directory is made, and from_type_string
\* raises KeyError or download() raises DownloadError; cache() catches
\* nothing
AcquireRaises(p) ==
    /\ cpc[p] \in {"idle", "error"}
    /\ UNCHANGED esriVars
    /\ UNCHANGED dlVars
    /\ UNCHANGED batchVars
    /\ runs[p] < RunLimit
    /\ \E e \in {"KeyError", "DownloadError"}, d \in Declared :
          /\ cerr' = [cerr EXCEPT ![p] = e]
          /\ data' = [data EXCEPT ![p] = d]
    /\ cpc' = [cpc EXCEPT ![p] = "error"]
    /\ workdir' = [workdir EXCEPT ![p] = ScratchDir(p, runs[p])]
    /\ dirs' = dirs \cup {ScratchDir(p, runs[p])}
    /\ runs' = [runs EXCEPT ![p] = @ + 1]
    /\ filepath' = [filepath EXCEPT ![p] = NoPath]
    /\ artifact' = [artifact EXCEPT ![p] = Missing]
    /\ fingerprint' = [fingerprint EXCEPT ![p] = NoFingerprint]
    /\ dir_seen' = [dir_seen EXCEPT ![p] = FALSE]
    /\ result' = [result EXCEPT ![p] = NoResult]
    /\ cache_result' = [cache_result EXCEPT ![p] = NoCacheResult]
    /\ ops' = [ops EXCEPT ![p] = <<>>]
    /\ UNCHANGED <<procs, files>>

(***************************************************************************)
(* compare_cache_details, cache.py:67-94                                   *)
(***************************************************************************)
CRaise(p, e) ==
    /\ cpc' = [cpc EXCEPT ![p] = "error"]
    /\ cerr' = [cerr EXCEPT ![p] = e]

\* CheckArtifact with the test placed after the creation of the result
\* directory
CheckArtifactLate(p) ==
    /\ cpc[p] = "exists"
    /\ UNCHANGED esriVars
    /\ UNCHANGED dlVars
    /\ UNCHANGED batchVars
    /\ IF ~Exists(filepath[p])
       THEN /\ CRaise(p, "Exception")
            /\ dirs' = dirs \cup {Abspath(ResultDir)}
            /\ ops' = [ops EXCEPT ![p] = Append(@, "mkdir")]
       ELSE cpc' = [cpc EXCEPT ![p] = "hash"] /\ cerr' = cerr /\ UNCHANGED <<dirs, ops>>
    /\ UNCHANGED <<procs, files, runs, workdir, filepath, artifact, data,
                   fingerprint, dir_seen, result, cache_result>>

\* cache.py:72-73
CheckArtifact(p) ==
    /\ cpc[p] = "exists"
    /\ UNCHANGED esriVars
    /\ UNCHANGED dlVars
    /\ UNCHANGED batchVars
    /\ IF ~Exists(filepath[p])
       THEN CRaise(p, "Exception")
       ELSE cpc' = [cpc EXCEPT ![p] = "hash"] /\ cerr' = cerr
    /\ UNCHANGED <<procs, files, dirs, runs, workdir, filepath, artifact, data,
                   fingerprint, dir_seen, result, cache_result, ops>>

\* AlreadyCached when the digest object is compared, not its hexdigest
AlreadyCachedNever(d, digest) == FALSE

\* AlreadyCached when a matching fingerprint is enough, whatever the reference
AlreadyCachedAnyScheme(d, digest) ==
    /\ d.fingerprint # NoFingerprint
    /\ digest = d.fingerprint

\* cache.py:82-83: nothing needs to be done at all
AlreadyCached(d, digest) ==
    /\ Scheme(d.cache) = "http"
    /\ d.fingerprint # NoFingerprint
    /\ digest = d.fingerprint

\* cache.py:75-84
Fingerprint(p) ==
    /\ cpc[p] = "hash"
    /\ UNCHANGED esriVars
    /\ UNCHANGED dlVars
    /\ UNCHANGED batchVars
    /\ LET digest == Md5(files[filepath[p]])
       IN /\ fingerprint' = [fingerprint EXCEPT ![p] = digest]
          /\ IF AlreadyCached(data[p], digest)
             THEN /\ result' = [result EXCEPT ![p] = <<data[p].cache, data[p].fingerprint>>]
                  /\ cpc' = [cpc EXCEPT ![p] = "returned"]
             ELSE /\ result' = result
                  /\ cpc' = [cpc EXCEPT ![p] = "dircheck"]
    /\ UNCHANGED <<procs, files, dirs, runs, workdir, filepath, artifact, data,
                   dir_seen, cache_result, cerr, ops>>

\* cache.py:88: exists(resultdir)
CheckResultDir(p) ==
    /\ cpc[p] = "dircheck"
    /\ UNCHANGED esriVars
    /\ UNCHANGED dlVars
    /\ UNCHANGED batchVars
    /\ dir_seen' = [dir_seen EXCEPT ![p] = Exists(ResultDir)]
    /\ cpc' = [cpc EXCEPT ![p] = IF Exists(ResultDir) THEN "move" ELSE "mkdir"]
    /\ UNCHANGED <<procs, files, dirs, runs, workdir, filepath, artifact, data,
                   fingerprint, result, cache_result, cerr, ops>>

\* cache.py:89: os.mkdir raises FileExistsError when the path exists by now
Mkdir(p) ==
    /\ cpc[p] = "mkdir"
    /\ UNCHANGED esriVars
    /\ UNCHANGED dlVars
    /\ UNCHANGED batchVars
    /\ IF Exists(ResultDir)
       THEN /\ CRaise(p, "FileExistsError")
            /\ UNCHANGED <<dirs, ops>>
       ELSE /\ dirs' = dirs \cup {Abspath(ResultDir)}
            /\ ops' = [ops EXCEPT ![p] = Append(@, "mkdir")]
            /\ cpc' = [cpc EXCEPT ![p] = "move"]
            /\ cerr' = cerr
    /\ UNCHANGED <<procs, files, runs, workdir, filepath, artifact, data,
                   fingerprint, dir_seen, result, cache_result>>

\* Rename as a copy: the source stays
RenameAsCopy(fs, src, dst) ==
    [q \in DOMAIN fs \cup {dst} |-> IF q = dst THEN fs[src] ELSE fs[q]]

\* shutil.move onto a file path: os.rename, which replaces an existing file
Rename(fs, src, dst) ==
    [q \in (DOMAIN fs \ {src}) \cup {dst} |-> IF q = dst THEN fs[src] ELSE fs[q]]

\* cache.py:86, 91-94
Move(p) ==
    /\ cpc[p] = "move"
    /\ UNCHANGED esriVars
    /\ UNCHANGED dlVars
    /\ UNCHANGED batchVars
    /\ LET cache_name == Basename(filepath[p])
           dst == Abspath(Join(ResultDir, cache_name))
       IN /\ files' = Rename(files, filepath[p], dst)
          /\ result' = [result EXCEPT ![p] =
                 <<[scheme |-> "file", rest |-> Join(Abspath(ResultDir), cache_name)],
                   fingerprint[p]>>]
    /\ ops' = [ops EXCEPT ![p] =
           Append(@, IF Exists(Join(ResultDir, Basename(filepath[p])))
                     THEN "replace" ELSE "create")]
    /\ cpc' = [cpc EXCEPT ![p] = "returned"]
    /\ UNCHANGED <<procs, dirs, runs, workdir, filepath, artifact, data,
                   fingerprint, dir_seen, cache_result, cerr>>

\* IsPrefix(dir, path): path lies in the tree of dir
IsPrefix(dir, path) == Len(path) >= Len(dir) /\ SubSeq(path, 1, Len(dir)) = dir

\* Rmtree of the parent directory
RmtreeParent(fs, dir) ==
    [q \in {f \in DOMAIN fs : ~IsPrefix(SubSeq(dir, 1, Len(dir) - 1), f)} |-> fs[q]]

\* shutil.rmtree, __init__.py:120: the files left outside the tree of dir
Rmtree(fs, dir) == [q \in {f \in DOMAIN fs : ~IsPrefix(dir, f)} |-> fs[q]]

\* shutil.rmtree, __init__.py:120: the directories left
RmtreeDirs(ds, dir) == {d \in ds : ~IsPrefix(dir, d)}

\* __init__.py:117-125: the scratch directory is removed with what is left in
\* it and the CacheResult is returned; the locals of the call are gone
Finish(p) ==
    /\ cpc[p] = "returned"
    /\ UNCHANGED esriVars
    /\ UNCHANGED dlVars
    /\ UNCHANGED batchVars
    /\ files' = Rmtree(files, workdir[p])
    /\ dirs' = RmtreeDirs(dirs, workdir[p])
    /\ cache_result' = [cache_result EXCEPT ![p] =
           [cache |-> result[p][1], fingerprint |-> result[p][2],
            version |-> data[p].version]]
    /\ result' = [result EXCEPT ![p] = NoResult]
    /\ cpc' = [cpc EXCEPT ![p] = "idle"]
    /\ workdir' = [workdir EXCEPT ![p] = NoPath]
    /\ filepath' = [filepath EXCEPT ![p] = NoPath]
    /\ artifact' = [artifact EXCEPT ![p] = Missing]
    /\ data' = [data EXCEPT ![p] = NoData]
    /\ fingerprint' = [fingerprint EXCEPT ![p] = NoFingerprint]
    /\ dir_seen' = [dir_seen EXCEPT ![p] = FALSE]
    /\ ops' = [ops EXCEPT ![p] = <<>>]
    /\ UNCHANGED <<procs, runs, cerr>>

InitCacheWith(ps) ==
    /\ procs = ps
    /\ files = <<>>
    /\ dirs \in {{Cwd, Abspath(DestDir)}, {Cwd, Abspath(DestDir), Abspath(ResultDir)}}
    /\ cpc = [p \in ps |-> "idle"]
    /\ runs = [p \in ps |-> 0]
    /\ workdir = [p \in ps |-> NoPath]
    /\ filepath = [p \in ps |-> NoPath]
    /\ artifact = [p \in ps |-> Missing]
    /\ data = [p \in ps |-> NoData]
    /\ fingerprint = [p \in ps |-> NoFingerprint]
    /\ dir_seen = [p \in ps |-> FALSE]
    /\ result = [p \in ps |-> NoResult]
    /\ cache_result = [p \in ps |-> NoCacheResult]
    /\ cerr = [p \in ps |-> "none"]
    /\ ops = [p \in ps |-> <<>>]

NextCache ==
    \/ \E p \in procs : Acquire(p)
    \/ \E p \in procs : AcquireRaises(p)
    \/ \E p \in procs : CheckArtifact(p)
    \/ \E p \in procs : Fingerprint(p)
    \/ \E p \in procs : CheckResultDir(p)
    \/ \E p \in procs : Mkdir(p)
    \/ \E p \in procs : Move(p)
    \/ \E p \in procs : Finish(p)

(***************************************************************************)
(* The download tasks: DownloadTask.from_type_string, the extension        *)
(* resolver and URLDownloadTask, cache.py:98-265.                          *)
(***************************************************************************)
\* the source_prefix argument: None, or the name of the source
NoPrefix == "None"
Prefixes == {NoPrefix, "us-ca"}

\* no task is constructed
NoTask == [class |-> "none", source_prefix |-> NoPrefix]

\* the type strings a source may declare
TypeStrings == {"http", "HTTP", "ftp", "Ftp", "esri", "ESRI", "https", "shp", ""}

\* from_type_string comparing the type string as written
from_type_string_exact(t, prefix) ==
    IF t = "http" THEN [class |-> "URLDownloadTask", source_prefix |-> prefix]
    ELSE IF t = "ftp" THEN [class |-> "URLDownloadTask", source_prefix |-> prefix]
    ELSE IF t = "esri" THEN [class |-> "EsriRestDownloadTask", source_prefix |-> prefix]
    ELSE NoTask

\* cache.py:104-114; NoTask stands for the KeyError of line 114
from_type_string(t, prefix) ==
    IF LowerCase(t) = "http" THEN [class |-> "URLDownloadTask", source_prefix |-> prefix]
    ELSE IF LowerCase(t) = "ftp" THEN [class |-> "URLDownloadTask", source_prefix |-> prefix]
    ELSE IF LowerCase(t) = "esri" THEN [class |-> "EsriRestDownloadTask", source_prefix |-> prefix]
    ELSE NoTask

\* A URL as urlparse and os.path.splitext cut it: the path is dir, stem, ext.
Urls ==
    { [scheme |-> "http",  host |-> "h", dir |-> "/d/", stem |-> "a", ext |-> ".zip", query |-> ""],
      [scheme |-> "http",  host |-> "h", dir |-> "/d/", stem |-> "b", ext |-> ".php", query |-> ""],
      [scheme |-> "https", host |-> "h", dir |-> "/d/", stem |-> "a", ext |-> ".csv", query |-> "v=1"],
      [scheme |-> "file",  host |-> "",  dir |-> "/l/", stem |-> "c", ext |-> ".csv", query |-> ""],
      [scheme |-> "ftp",   host |-> "f", dir |-> "/",   stem |-> "e", ext |-> ".zip", query |-> ""],
      [scheme |-> "ftp",   host |-> "f", dir |-> "/",   stem |-> "g", ext |-> "",     query |-> ""] }

UrlLists == UNION {[1..n -> Urls] : n \in 0..MaxUrls}

\* the workdir argument of download(), and the directory of a task in it
TaskDir == <<"", "srv", "work">>
DownloadPath(name) == Join(TaskDir, name)

\* sha1(text).hexdigest()[:8]: a function of the text alone
Sha1Hex8(text) == "#" \o text

\* mimetypes.guess_extension(type, False), with the registration of
\* cache.py:123; "None" is the None it returns for a type it does not know
NoExt == "None"
FalseExt == "False"
GuessExtension(mime) ==
    CASE mime = "text/csv" -> ".csv"
      [] mime = "application/zip" -> ".zip"
      [] mime = "application/x-zip-compressed" -> ".zip"
      [] mime = "text/plain" -> ".txt"
      [] OTHER -> NoExt

\* cache.py:126
BadExtensions == {"", ".cgi", ".php", ".aspx", ".asp", ".do"}

\* TrustsPath when every URL is probed
TrustsNoPath(url) == FALSE

\* cache.py:128: the extension of the path is taken as it is
TrustsPath(url) == url.query = "" /\ url.ext \notin BadExtensions

\* What a partial fetch brings: the Content-Type header, the extension of
\* the filename of a Content-Disposition attachment ("inline" for a header
\* the pattern of cache.py:163 does not match), and the type `file` gives
\* for the first bytes.
PartialResponses ==
    [content_type : {"absent", "text/csv", "application/x-zip-compressed", "x/unknown"},
     disposition  : {"absent", "inline", ".csv", ".json"},
     mime         : {"text/plain", "application/zip", "inode/x-empty"}]

\* nothing was fetched or read
NoPartial == [content_type |-> "absent", disposition |-> "absent", mime |-> "none"]

\* HeadersExt when the Content-Type header is believed whatever the
\* Content-Disposition header says
HeadersExtTrusting(h) ==
    IF h.content_type = "absent" THEN FalseExt ELSE GuessExtension(h.content_type)

\* cache.py:148-172
HeadersExt(h) ==
    IF h.content_type = "absent" THEN FalseExt
    ELSE IF h.disposition \in {"absent", "inline"} THEN GuessExtension(h.content_type)
    ELSE IF GuessExtension(h.content_type) = h.disposition
         THEN GuessExtension(h.content_type)
         ELSE FalseExt

\* cache.py:174-183
SniffedExt(h) ==
    IF HeadersExt(h) \in {FalseExt, NoExt} THEN GuessExtension(h.mime) ELSE HeadersExt(h)

\* ReadsLocally when every URL that is not fetched is opened as a file
ReadsAnyLocally(url) == TRUE

\* cache.py:144: the URL names a local file
ReadsLocally(url) == url.scheme \in {"file", ""}

\* cache.py:174: the headers gave no extension, the content is looked at
Sniffs(h) == HeadersExt(h) \in {FalseExt, NoExt}

\* guess_url_file_extension, cache.py:119-185, for a URL that answers the
\* partial fetch, or the read of the local file, with h.  fetched tells
\* whether a request was sent, read whether a local file was opened, and
\* sniffed whether get_content_mimetype was called.
Outcome(url, h) ==
    IF TrustsPath(url)
    THEN [ext |-> url.ext, raised |-> "none", fetched |-> FALSE, read |-> FALSE,
          sniffed |-> FALSE]
    ELSE IF url.scheme \in {"http", "https"}
    THEN [ext |-> SniffedExt(h), raised |-> "none", fetched |-> TRUE, read |-> FALSE,
          sniffed |-> Sniffs(h)]
    ELSE IF ReadsLocally(url)
    THEN [ext |-> GuessExtension(h.mime), raised |-> "none", fetched |-> FALSE,
          read |-> TRUE, sniffed |-> TRUE]
    ELSE [ext |-> NoExt, raised |-> "ValueError", fetched |-> FALSE, read |-> FALSE,
          sniffed |-> FALSE]

\* guess_url_file_extension, cache.py:119-185: what a call can come to, for
\* any answer, the request or the read failing (cache.py:140, 146) and an
\* empty body (cache.py:141) included.
ResolverOutcomes(url) ==
    {Outcome(url, h) : h \in PartialResponses}
    \cup (IF TrustsPath(url) THEN {}
          ELSE IF url.scheme \in {"http", "https"}
          THEN {[ext |-> NoExt, raised |-> e, fetched |-> TRUE, read |-> FALSE,
                 sniffed |-> FALSE] : e \in {"ConnectionError", "StopIteration"}}
          ELSE IF ReadsLocally(url)
          THEN {[ext |-> NoExt, raised |-> "IOError", fetched |-> FALSE, read |-> TRUE,
                 sniffed |-> FALSE]}
          ELSE {})

\* guess_url_file_extension is not running and has left nothing behind
NoProbe ==
    [ext |-> NoExt, raised |-> "none", fetched |-> FALSE, read |-> FALSE,
     sniffed |-> FALSE]

\* NameBase when the extension is not cut off the path
NameBaseWhole(t, url) ==
    IF t.source_prefix = NoPrefix THEN url.stem \o url.ext
    ELSE t.source_prefix \o "-" \o Sha1Hex8(url.host \o url.dir \o url.stem \o url.ext)

\* cache.py:208-216
NameBase(t, url) ==
    IF t.source_prefix = NoPrefix THEN url.stem
    ELSE t.source_prefix \o "-" \o Sha1Hex8(url.host \o url.dir \o url.stem)

\* cache.py:303-314
EsriFilePath(t, url) ==
    Join(DownloadPath("esri"),
         (IF t.source_prefix = NoPrefix THEN url.host ELSE t.source_prefix)
            \o "-" \o Sha1Hex8(url.host \o url.dir \o url.stem \o url.ext) \o ".csv")

\* the status codes a server may answer with
Statuses == {200, 404, 499, 500}

\* cache.py:252
Refused(code) == code \in 400..498

\* the bytes a server holds for a URL (a local file may change between calls)
Body(url) == IF url.ext = ".zip" THEN <<7, 9>> ELSE <<7>>

\* what a file holds of the bytes when the writing stops before the end: the
\* first chunks of a body (cache.py:257-259), the header of a CSV without its
\* rows (cache.py:520-525)
Truncated(bytes) == SubSeq(bytes, 1, Len(bytes) - 1)

\* open(file_path, 'wb') and the writes: the file holds the bytes
WriteFile(fs, path, bytes) ==
    [q \in DOMAIN fs \cup {path} |-> IF q = path THEN bytes ELSE fs[q]]

\* Skip when the path of a file that exists is not reported
SkipSilently(out, path) == out

\* cache.py:238-241 and 325-328: the file exists, its path is reported
Skip(out, path) == Append(out, path)

DRaise(e) ==
    /\ dpc' = "error"
    /\ derr' = e

\* the end of a pass of the loop over source_urls
NextUrl ==
    /\ url_i' = url_i + 1
    /\ dpc' = IF url_i = Len(source_urls) THEN "returned" ELSE "url"
    /\ derr' = derr

\* cache.py:104-114
Dispatch ==
    /\ dpc = "dispatch"
    /\ UNCHANGED esriVars
    /\ UNCHANGED cacheVars
    /\ UNCHANGED batchVars
    /\ LET t == from_type_string(type_string, source_prefix)
       IN IF t = NoTask
          THEN DRaise("KeyError") /\ task' = task
          ELSE task' = t /\ dpc' = "ready" /\ derr' = derr
    /\ UNCHANGED <<type_string, source_prefix, source_urls, url_i, file_path,
                   output_files, downloads, net, status, calls, probe, given>>

\* cache.py:224-229 and 316-321: a call of download() on the task; a later
\* call is a re-run with the same URLs over the files the earlier calls left.
\* The arguments of from_type_string are gone: the task carries the prefix.
StartDownload ==
    /\ dpc \in {"ready", "returned", "error"}
    /\ task # NoTask
    /\ calls < MaxCalls
    /\ UNCHANGED esriVars
    /\ UNCHANGED cacheVars
    /\ UNCHANGED batchVars
    /\ IF calls = 0 THEN source_urls' \in UrlLists ELSE source_urls' = source_urls
    /\ calls' = calls + 1
    /\ output_files' = <<>>
    /\ net' = 0
    /\ status' = 0
    /\ url_i' = 1
    /\ file_path' = NoPath
    /\ derr' = "none"
    /\ dpc' = IF source_urls' = <<>> THEN "returned" ELSE "url"
    /\ type_string' = ""
    /\ source_prefix' = NoPrefix
    /\ probe' = NoProbe
    /\ UNCHANGED <<task, downloads, given>>

\* cache.py:230, URLDownloadTask.get_file_path (203-222) with the call of
\* guess_url_file_extension; name_base + None of line 222 is a TypeError
ResolvePath ==
    /\ dpc = "url"
    /\ task.class = "URLDownloadTask"
    /\ UNCHANGED esriVars
    /\ UNCHANGED cacheVars
    /\ UNCHANGED batchVars
    /\ \E o \in ResolverOutcomes(source_urls[url_i]) :
          /\ net' = IF o.fetched THEN net + 1 ELSE net
          /\ status' = 0
          /\ probe' = o
          /\ IF o.raised # "none"
             THEN DRaise(o.raised) /\ file_path' = file_path
             ELSE IF o.ext = NoExt
             THEN DRaise("TypeError") /\ file_path' = file_path
             ELSE /\ file_path' = Join(DownloadPath("http"),
                                       NameBase(task, source_urls[url_i]) \o o.ext)
                  /\ dpc' = "fetch"
                  /\ derr' = derr
    /\ UNCHANGED <<type_string, source_prefix, task, source_urls, url_i,
                   output_files, downloads, calls, given>>

\* cache.py:232-263, the rest of the pass for the URL at hand
FetchUrl ==
    /\ dpc = "fetch"
    /\ UNCHANGED esriVars
    /\ UNCHANGED cacheVars
    /\ UNCHANGED batchVars
    /\ UNCHANGED <<type_string, source_prefix, task, source_urls, file_path, calls,
                   given>>
    /\ probe' = NoProbe
    /\ LET url == source_urls[url_i]
       IN IF url.scheme = "file"
          THEN \* cache.py:235-241: the local file as it is now is copied over
               \* the destination, which then exists
               \E c \in Contents \cup {Missing} :
                  /\ UNCHANGED <<net, status>>
                  /\ IF c = Missing
                     THEN DRaise("IOError") /\ UNCHANGED <<downloads, output_files, url_i>>
                     ELSE /\ downloads' = WriteFile(downloads, file_path, c)
                          /\ output_files' = Skip(output_files, file_path)
                          /\ NextUrl
          ELSE IF file_path \in DOMAIN downloads
          THEN \* cache.py:238-241
               /\ output_files' = Skip(output_files, file_path)
               /\ NextUrl
               /\ UNCHANGED <<downloads, net, status>>
          ELSE IF url.scheme \notin {"http", "https", "ftp"}
          THEN \* cache.py:247-250: requests, with the ftp adapter of
               \* cache.py:28-29, has no adapter for the scheme
               /\ DRaise("DownloadError")
               /\ UNCHANGED <<downloads, net, status, output_files, url_i>>
          ELSE \/ \* cache.py:247-250: the request raises
                  /\ net' = net + 1
                  /\ DRaise("DownloadError")
                  /\ UNCHANGED <<downloads, status, output_files, url_i>>
               \/ \E s \in Statuses :
                     /\ net' = net + 1
                     /\ status' = s
                     /\ IF Refused(s)
                        THEN \* cache.py:252-253
                             /\ DRaise("DownloadError")
                             /\ UNCHANGED <<downloads, output_files, url_i>>
                        ELSE \/ \* cache.py:255-263
                                /\ downloads' = WriteFile(downloads, file_path, Body(url))
                                /\ output_files' = Append(output_files, file_path)
                                /\ NextUrl
                             \/ \* cache.py:256-259: the file is open and
                                \* iter_content raises before the last chunk
                                /\ downloads' = WriteFile(downloads, file_path,
                                                          Truncated(Body(url)))
                                /\ DRaise("ConnectionError")
                                /\ UNCHANGED <<output_files, url_i>>

\* cache.py:322-551, a pass of EsriRestDownloadTask.download for the URL at
\* hand: the file exists and is reported, or the layer is acquired into it.
\* The acquisition ends well, or raises before the file is opened (330-397)
\* or after (520-547).
EsriUrl ==
    /\ dpc = "url"
    /\ task.class = "EsriRestDownloadTask"
    /\ UNCHANGED esriVars
    /\ UNCHANGED cacheVars
    /\ UNCHANGED batchVars
    /\ UNCHANGED <<type_string, source_prefix, task, source_urls, status, calls, probe,
                   given>>
    /\ file_path' = EsriFilePath(task, source_urls[url_i])
    /\ IF file_path' \in DOMAIN downloads
       THEN /\ output_files' = Skip(output_files, file_path')
            /\ NextUrl
            /\ UNCHANGED <<downloads, net>>
       ELSE /\ net' = net + 1
            /\ \/ /\ DRaise("DownloadError")
                  /\ UNCHANGED <<downloads, output_files, url_i>>
               \/ /\ downloads' = WriteFile(downloads, file_path',
                                            Truncated(Body(source_urls[url_i])))
                  /\ DRaise("DownloadError")
                  /\ UNCHANGED <<output_files, url_i>>
               \/ /\ downloads' = WriteFile(downloads, file_path', Body(source_urls[url_i]))
                  /\ output_files' = Append(output_files, file_path')
                  /\ NextUrl

\* no task is dispatched
DownloadIdle ==
    /\ type_string = ""
    /\ source_prefix = NoPrefix
    /\ task = NoTask
    /\ source_urls = <<>>
    /\ url_i = 1
    /\ file_path = NoPath
    /\ output_files = <<>>
    /\ downloads = <<>>
    /\ net = 0
    /\ status = 0
    /\ calls = 0
    /\ probe = NoProbe
    /\ given = NoPartial
    /\ dpc = "idle"
    /\ derr = "none"

\* the call of from_type_string is about to be made
InitDownload ==
    /\ type_string \in TypeStrings
    /\ source_prefix \in Prefixes
    /\ task = NoTask
    /\ source_urls = <<>>
    /\ url_i = 1
    /\ file_path = NoPath
    /\ output_files = <<>>
    /\ downloads = <<>>
    /\ net = 0
    /\ status = 0
    /\ calls = 0
    /\ probe = NoProbe
    /\ given = NoPartial
    /\ dpc = "dispatch"
    /\ derr = "none"

NextDownload == Dispatch \/ StartDownload \/ ResolvePath \/ FetchUrl \/ EsriUrl

\* guess_url_file_extension (cache.py:119-185) is about to be called, by
\* get_file_path of a task for URLs, for a URL that answers with given
InitResolve ==
    /\ type_string = ""
    /\ source_prefix = NoPrefix
    /\ task \in {[class |-> "URLDownloadTask", source_prefix |-> x] : x \in Prefixes}
    /\ source_urls \in {<<u>> : u \in Urls}
    /\ url_i = 1
    /\ file_path = NoPath
    /\ output_files = <<>>
    /\ downloads = <<>>
    /\ net = 0
    /\ status = 0
    /\ calls = 1
    /\ probe = NoProbe
    /\ given \in PartialResponses
    /\ dpc = "resolve"
    /\ derr = "none"

\* the call of guess_url_file_extension, cache.py:119-185
Resolve ==
    /\ dpc = "resolve"
    /\ UNCHANGED esriVars
    /\ UNCHANGED cacheVars
    /\ UNCHANGED batchVars
    /\ probe' = Outcome(source_urls[url_i], given)
    /\ net' = IF probe'.fetched THEN net + 1 ELSE net
    /\ IF probe'.raised # "none" THEN DRaise(probe'.raised)
       ELSE dpc' = "resolved" /\ derr' = derr
    /\ UNCHANGED <<type_string, source_prefix, task, source_urls, url_i, file_path,
                   output_files, downloads, status, calls, given>>

NextResolve == Resolve

(***************************************************************************)
(* process_one.process(): cache, conform and preview of one source, and    *)
(* the state file (process_one.py:33-106, 179-268).                        *)
(***************************************************************************)
\* the source file: absent, not JSON, JSON that says skip, any other JSON
SourceFiles == {"missing", "malformed", "skip", "plain"}

\* process_one.py:42, the handler get_log_handler made
LogHandler == "log_handler"

\* cache.py:59-61, CacheResult.empty()
EmptyCacheResult == [cache |-> "None", fingerprint |-> "None"]

\* __init__.py:122-125, what cache() returns: a file:// URL or a remote one
CacheResults ==
    {[cache |-> "file:///cached/a.zip", fingerprint |-> "md5"],
     [cache |-> "http://s3/a.zip", fingerprint |-> "md5"]}

\* nothing was raised inside the try
NoRaise == [stage |-> "none", e |-> "none"]

\* no state was written
NoState == [skipped |-> FALSE, cache |-> "unwritten", fingerprint |-> "unwritten",
            processed |-> "unwritten", preview |-> "unwritten",
            slippymap |-> "unwritten"]

\* process_one.py:254-257, the name write_state returns
StatePath == "index.json"

\* the exception types of the model that derive from Exception;
\* KeyboardInterrupt derives from BaseException only
ExceptionClasses ==
    {"SourceSaysSkip", "EsriDownloadError", "DownloadError", "ValueError", "Exception"}

\* what a call of cache() may raise (process_one.py:56-62)
CacheRaises == {"EsriDownloadError", "DownloadError", "Exception", "KeyboardInterrupt"}

\* Caught when only the skip of a source is handled
CaughtSkipOnly(e) == e = "SourceSaysSkip"

\* process_one.py:88-94: the except clauses of process() handle the exception
Caught(e) == e \in ExceptionClasses

\* process_one.py:88-99: the way out of the try, with the exception e of
\* the stage or with none; the finally clause runs on every way
Leave(stage, e) ==
    /\ raised' = IF e = "none" THEN raised ELSE [stage |-> stage, e |-> e]
    /\ skipped_source' = (e = "SourceSaysSkip")
    /\ logger_handlers' = logger_handlers \ {LogHandler}
    /\ IF e = "none" \/ Caught(e)
       THEN ppc' = "write_state" /\ perr' = perr
       ELSE ppc' = "raised" /\ perr' = e

\* process_one.py:38-46
Begin ==
    /\ ppc = "start"
    /\ UNCHANGED esriVars
    /\ UNCHANGED cacheVars
    /\ UNCHANGED dlVars
    /\ UNCHANGED iterVars
    /\ temp_dir' = TRUE
    /\ IF source_json = "missing"
       THEN /\ ppc' = "raised"
            /\ perr' = "IOError"
            /\ UNCHANGED logger_handlers
       ELSE /\ ppc' = "load"
            /\ perr' = perr
            /\ logger_handlers' = logger_handlers \cup {LogHandler}
    /\ UNCHANGED <<source_json, do_preview, mapzen_key, cache_res, conform_result,
                   preview_path, slippymap_path, skipped_source, invoked, raised, state,
                   state_path>>

\* process_one.py:49-52
LoadSource ==
    /\ ppc = "load"
    /\ UNCHANGED esriVars
    /\ UNCHANGED cacheVars
    /\ UNCHANGED dlVars
    /\ UNCHANGED iterVars
    /\ IF source_json = "malformed" THEN Leave("load", "ValueError")
       ELSE IF source_json = "skip" THEN Leave("load", "SourceSaysSkip")
       ELSE /\ ppc' = "cache"
            /\ UNCHANGED <<raised, skipped_source, logger_handlers, perr>>
    /\ UNCHANGED <<source_json, do_preview, mapzen_key, temp_dir, cache_res,
                   conform_result, preview_path, slippymap_path, invoked, state,
                   state_path>>

\* process_one.py:54-70: the call of cache()
Cache ==
    /\ ppc = "cache"
    /\ UNCHANGED esriVars
    /\ UNCHANGED cacheVars
    /\ UNCHANGED dlVars
    /\ UNCHANGED iterVars
    /\ invoked' = invoked \cup {"cache"}
    /\ \/ \E r \in CacheResults :
            /\ cache_res' = r
            /\ ppc' = "conform"
            /\ UNCHANGED <<raised, skipped_source, logger_handlers, perr>>
       \/ \E e \in CacheRaises :
            /\ cache_res' = cache_res
            /\ Leave("cache", e)
    /\ UNCHANGED <<source_json, do_preview, mapzen_key, temp_dir, conform_result,
                   preview_path, slippymap_path, state, state_path>>

\* process_one.py:71-77: the call of conform()
Conform ==
    /\ ppc = "conform"
    /\ UNCHANGED esriVars
    /\ UNCHANGED cacheVars
    /\ UNCHANGED dlVars
    /\ UNCHANGED iterVars
    /\ invoked' = invoked \cup {"conform"}
    /\ \/ /\ conform_result' = "out.csv"
          /\ ppc' = "preview"
          /\ UNCHANGED <<raised, skipped_source, logger_handlers, perr>>
       \/ /\ conform_result' = conform_result
          /\ Leave("conform", "none")
       \/ /\ conform_result' = conform_result
          /\ Leave("conform", "Exception")
    /\ UNCHANGED <<source_json, do_preview, mapzen_key, temp_dir, cache_res,
                   preview_path, slippymap_path, state, state_path>>

\* process_one.py:79-86, 108-125: render_preview, which may raise, and
\* render_slippymap, which answers None when it fails
Preview ==
    /\ ppc = "preview"
    /\ UNCHANGED esriVars
    /\ UNCHANGED cacheVars
    /\ UNCHANGED dlVars
    /\ UNCHANGED iterVars
    /\ \/ /\ do_preview /\ mapzen_key
          /\ invoked' = invoked \cup {"render_preview"}
          /\ UNCHANGED <<preview_path, slippymap_path>>
          /\ Leave("render_preview", "Exception")
       \/ \E m \in {"slippymap.mbtiles", "None"} :
            /\ preview_path' = IF do_preview /\ mapzen_key THEN "preview.png" ELSE "None"
            /\ slippymap_path' = IF do_preview THEN m ELSE "None"
            /\ invoked' = invoked
                    \cup (IF do_preview /\ mapzen_key THEN {"render_preview"} ELSE {})
                    \cup (IF do_preview THEN {"render_slippymap"} ELSE {})
            /\ Leave("preview", "none")
    /\ UNCHANGED <<source_json, do_preview, mapzen_key, temp_dir, cache_res,
                   conform_result, state, state_path>>

\* process_one.py:190-199: the cache as the state names it
StateCache(c) ==
    IF c = "None" THEN "None"
    ELSE IF c = "file:///cached/a.zip" THEN "cache.zip"
    ELSE c

\* process_one.py:101-106 and write_state, 179-268: the state is written,
\* the temporary directory removed and the path of the state returned;
\* write_state reads the source again when it was not skipped (219-226)
WriteState ==
    /\ ppc = "write_state"
    /\ UNCHANGED esriVars
    /\ UNCHANGED cacheVars
    /\ UNCHANGED dlVars
    /\ UNCHANGED iterVars
    /\ IF ~skipped_source /\ source_json = "malformed"
       THEN /\ ppc' = "raised"
            /\ perr' = "ValueError"
            /\ UNCHANGED <<state, state_path, temp_dir>>
       ELSE /\ state' = [skipped |-> skipped_source,
                         cache |-> StateCache(cache_res.cache),
                         fingerprint |-> cache_res.fingerprint,
                         processed |-> IF conform_result = "None" THEN "None"
                                       ELSE "out.csv",
                         preview |-> IF preview_path = "None" THEN "None"
                                     ELSE "preview.png",
                         slippymap |-> IF slippymap_path = "None" THEN "None"
                                       ELSE "slippymap.mbtiles"]
            /\ temp_dir' = FALSE
            /\ state_path' = StatePath
            /\ ppc' = "returned"
            /\ perr' = perr
    /\ UNCHANGED <<source_json, do_preview, mapzen_key, logger_handlers, cache_res,
                   conform_result, preview_path, slippymap_path, skipped_source,
                   invoked, raised>>

\* process() is not running
ProcessIdle ==
    /\ source_json = "plain"
    /\ do_preview = FALSE
    /\ mapzen_key = FALSE
    /\ logger_handlers = {}
    /\ temp_dir = FALSE
    /\ cache_res = EmptyCacheResult
    /\ conform_result = "None"
    /\ preview_path = "None"
    /\ slippymap_path = "None"
    /\ skipped_source = FALSE
    /\ invoked = {}
    /\ raised = NoRaise
    /\ state = NoState
    /\ state_path = "None"
    /\ ppc = "idle"
    /\ perr = "none"

\* process() is about to run; the logger may carry the handler of a
\* process() that runs in another thread
InitProcess ==
    /\ source_json \in SourceFiles
    /\ do_preview \in BOOLEAN
    /\ mapzen_key \in BOOLEAN
    /\ logger_handlers \in SUBSET {"other"}
    /\ temp_dir = FALSE
    /\ cache_res = EmptyCacheResult
    /\ conform_result = "None"
    /\ preview_path = "None"
    /\ slippymap_path = "None"
    /\ skipped_source = FALSE
    /\ invoked = {}
    /\ raised = NoRaise
    /\ state = NoState
    /\ state_path = "None"
    /\ ppc = "start"
    /\ perr = "none"

NextProcess == Begin \/ LoadSource \/ Cache \/ Conform \/ Preview \/ WriteState

(***************************************************************************)
(* iterate_local_processed_files and download_processed_file               *)
(* (__init__.py:208-264).                                                  *)
(***************************************************************************)
\* run.datetime_tz is None
NoDate == 0

\* the times of the runs that have one
Dates == 1..2

\* a run: its datetime_tz, and whether run.state names a processed URL
Runs == [datetime_tz : {NoDate} \cup Dates, processed : BOOLEAN]

\* the argument runs; a run is known by its place in the list
RunLists == UNION {[1..n -> Runs] : n \in 0..MaxIterRuns}

\* __init__.py:216: the keys of the sort are datetimes for the runs that
\* have one and date(1970, 1, 1) for the others, and Python does not
\* order a datetime and a date: sorted() raises TypeError
MixedKeys(rs) ==
    \E i, j \in DOMAIN rs : rs[i].datetime_tz = NoDate /\ rs[j].datetime_tz # NoDate

\* the places of rs that come before place i in sorted(rs, key, reverse=True):
\* a greater key, or the same key and an earlier place
Before(rs, i) ==
    {j \in DOMAIN rs : \/ rs[j].datetime_tz > rs[i].datetime_tz
                       \/ rs[j].datetime_tz = rs[i].datetime_tz /\ j < i}

\* __init__.py:218: the places of the runs in the order of the loop
SortedRuns(rs) ==
    [k \in DOMAIN rs |-> CHOOSE i \in DOMAIN rs : Cardinality(Before(rs, i)) = k - 1]

\* no file is at hand
NoFile == [run |-> 0, attempt |-> 0, whole |-> FALSE]

\* __init__.py:213-218: the generator starts, the runs are sorted
SortRuns ==
    /\ ipc = "start"
    /\ UNCHANGED esriVars
    /\ UNCHANGED cacheVars
    /\ UNCHANGED dlVars
    /\ UNCHANGED procVars
    /\ IF MixedKeys(run_list)
       THEN /\ ipc' = "error"
            /\ ierr' = "TypeError"
            /\ UNCHANGED sorted_runs
       ELSE /\ sorted_runs' = SortedRuns(run_list)
            /\ ipc' = "run"
            /\ ierr' = ierr
    /\ UNCHANGED <<run_list, run_i, attempt, filename, temp_files, yielded>>

\* __init__.py:218-224: the next run of the loop, or the end of the generator
Run ==
    /\ ipc = "run"
    /\ UNCHANGED esriVars
    /\ UNCHANGED cacheVars
    /\ UNCHANGED dlVars
    /\ UNCHANGED procVars
    /\ IF run_i > Len(sorted_runs)
       THEN ipc' = "done" /\ UNCHANGED <<run_i, attempt>>
       ELSE IF ~run_list[sorted_runs[run_i]].processed
       THEN /\ run_i' = run_i + 1
            /\ UNCHANGED <<ipc, attempt>>
       ELSE /\ attempt' = 0
            /\ ipc' = "download"
            /\ UNCHANGED run_i
    /\ UNCHANGED <<run_list, sorted_runs, filename, temp_files, yielded, ierr>>

\* __init__.py:226-240 and 245-264: one call of download_processed_file.
\* mkstemp makes the file (250); the request (253), the writing (255-257)
\* and the reading of Last-Modified (259-261) may raise with the file made,
\* and mkstemp itself may raise without one.  The third failure leaves the
\* run; a success is yielded.
Download ==
    /\ ipc = "download"
    /\ UNCHANGED esriVars
    /\ UNCHANGED cacheVars
    /\ UNCHANGED dlVars
    /\ UNCHANGED procVars
    /\ attempt' = attempt + 1
    /\ LET made(w) == [run |-> sorted_runs[run_i], attempt |-> attempt', whole |-> w]
           failed == /\ filename' = filename
                     /\ yielded' = yielded
                     /\ IF attempt' = DownloadTries
                        THEN /\ run_i' = run_i + 1
                             /\ ipc' = "run"
                        ELSE UNCHANGED <<run_i, ipc>>
       IN \/ /\ temp_files' = temp_files \cup {made(TRUE)}
             /\ filename' = made(TRUE)
             /\ yielded' = Append(yielded, sorted_runs[run_i])
             /\ ipc' = "yielded"
             /\ UNCHANGED run_i
          \/ \E w \in BOOLEAN :
                /\ temp_files' = temp_files \cup {made(w)}
                /\ failed
          \/ /\ temp_files' = temp_files
             /\ failed
    /\ UNCHANGED <<run_list, sorted_runs, ierr>>

\* __init__.py:242-243: the consumer resumes the generator; the file is
\* removed if it is still there
Resume ==
    /\ ipc = "yielded"
    /\ UNCHANGED esriVars
    /\ UNCHANGED cacheVars
    /\ UNCHANGED dlVars
    /\ UNCHANGED procVars
    /\ temp_files' = temp_files \ {filename}
    /\ filename' = NoFile
    /\ run_i' = run_i + 1
    /\ ipc' = "run"
    /\ UNCHANGED <<run_list, sorted_runs, attempt, yielded, ierr>>

\* the generator does not run
IterateIdle ==
    /\ run_list = <<>>
    /\ sorted_runs = <<>>
    /\ run_i = 1
    /\ attempt = 0
    /\ filename = NoFile
    /\ temp_files = {}
    /\ yielded = <<>>
    /\ ipc = "idle"
    /\ ierr = "none"

\* the generator is made for a list of runs; no processed-* file is there
InitIterate ==
    /\ run_list \in RunLists
    /\ sorted_runs = <<>>
    /\ run_i = 1
    /\ attempt = 0
    /\ filename = NoFile
    /\ temp_files = {}
    /\ yielded = <<>>
    /\ ipc = "start"
    /\ ierr = "none"

NextIterate == SortRuns \/ Run \/ Download \/ Resume

(***************************************************************************)
(* Specifications.                                                         *)
(***************************************************************************)
\* no ESRI acquisition runs
EsriIdle ==
    /\ layer = <<>>
    /\ max_record_count = 1
    /\ extent = [xmin |-> Whole(0), ymin |-> Whole(0),
                 xmax |-> Whole(GridMax), ymax |-> Whole(GridMax)]
    /\ stack = <<>>
    /\ tries = Tries
    /\ response = NoResponse
    /\ fetched_ids = {}
    /\ rows = <<>>
    /\ skipped = 0
    /\ metadata = LayerMetadata
    /\ csv = NoCsv
    /\ no_geometry = {}
    /\ shape = <<>>
    /\ pc = "done"
    /\ err = "none"

InitAcquisition ==
    /\ InitEsri /\ InitCacheWith({}) /\ dirs = {Cwd, Abspath(DestDir)} /\ DownloadIdle
    /\ ProcessIdle /\ IterateIdle

InitLayers ==
    /\ InitEsriSmall /\ InitCacheWith({}) /\ dirs = {Cwd, Abspath(DestDir)} /\ DownloadIdle
    /\ ProcessIdle /\ IterateIdle

InitSessions == EsriIdle /\ InitCacheWith({1}) /\ DownloadIdle /\ ProcessIdle /\ IterateIdle

InitRace == EsriIdle /\ InitCacheWith({1, 2}) /\ DownloadIdle /\ ProcessIdle /\ IterateIdle

InitTasks ==
    /\ EsriIdle /\ InitCacheWith({}) /\ dirs = {Cwd, Abspath(DestDir)} /\ InitDownload
    /\ ProcessIdle /\ IterateIdle

NextEsri == Metadata \/ Request \/ RequestRaises \/ Process \/ WriteRows

\* one ESRI acquisition
SpecEsri == InitAcquisition /\ [][NextEsri]_vars

\* one ESRI acquisition of a small layer, for every answer to f=json
SpecEsriSmall == InitLayers /\ [][NextEsri]_vars

\* a sequence of cache() calls against one result store
SpecCache == InitSessions /\ [][NextCache]_vars

\* two sessions for different sources, interleaved, against one result store
SpecRace == InitRace /\ [][NextCache]_vars

\* one task: from_type_string, then calls of download()
SpecDownload == InitTasks /\ [][NextDownload]_vars

InitResolver ==
    /\ EsriIdle /\ InitCacheWith({}) /\ dirs = {Cwd, Abspath(DestDir)} /\ InitResolve
    /\ ProcessIdle /\ IterateIdle

\* one call of guess_url_file_extension, for every URL and every answer
SpecResolver == InitResolver /\ [][NextResolve]_vars

InitOne ==
    /\ EsriIdle /\ InitCacheWith({}) /\ dirs = {Cwd, Abspath(DestDir)} /\ DownloadIdle
    /\ InitProcess /\ IterateIdle

\* one call of process()
SpecProcess == InitOne /\ [][NextProcess]_vars

InitGenerator ==
    /\ EsriIdle /\ InitCacheWith({}) /\ dirs = {Cwd, Abspath(DestDir)} /\ DownloadIdle
    /\ ProcessIdle /\ InitIterate

\* one generator of iterate_local_processed_files, run to its end
SpecIterate == InitGenerator /\ [][NextIterate]_vars

(***************************************************************************)
(* Properties of one ESRI acquisition (SpecEsri).                          *)
(***************************************************************************)
RowIds == {rows[i].oid : i \in DOMAIN rows}

NoDuplicateRows == \A i, j \in DOMAIN rows : i # j => rows[i].oid # rows[j].oid

Ended == pc \in {"done", "error"}

\* C1: no object-id occurs twice among the rows accumulated by the traversal,
\* fetched_ids is at every tile boundary the set of object-ids of the rows
\* retained so far, and fetched_ids only grows.
C1_ExactlyOnce ==
    /\ [](NoDuplicateRows /\ fetched_ids = RowIds)
    /\ [][fetched_ids \subseteq fetched_ids']_vars

\* a finished traversal that split a tile and passed over a feature it had
\* already fetched
C1_Witness ==
    /\ pc = "done"
    /\ skipped > 0
    /\ Len(rows) > max_record_count

\* C2: an acquisition that completes without error has retained exactly the
\* features of the layer that intersect the initial extent, each once.
C2_Complete ==
    pc = "done" => (RowIds = Matching(extent) /\ NoDuplicateRows)

\* a finished traversal that split a tile (a later tile met a feature again),
\* over a layer with a feature outside the extent
C2_Witness ==
    /\ pc = "done"
    /\ Len(rows) >= max_record_count
    /\ skipped > 0
    /\ Matching(extent) # DOMAIN layer

\* The work left: every step of the acquisition lowers it.
TileWeight == Tries + 2
FeatureWeight == 3 * TileWeight + 5

Measure ==
    IF Ended THEN 0
    ELSE IF pc = "emit" THEN 1
    ELSE IF pc = "metadata" THEN FeatureWeight * Len(layer) + TileWeight + 2
    ELSE FeatureWeight * Cardinality(DOMAIN layer \ fetched_ids)
         + TileWeight * (Len(stack) - 1)
         + (IF pc = "request" THEN tries + 2 ELSE 1)
         + 1

LeafTile ==
    /\ pc = "process"
    /\ response.body = "features"
    /\ Cardinality(response.features) < max_record_count

\* C3: the tiling terminates: every step of an acquisition lowers a natural
\* number (so there are finitely many tile queries and the acquisition ends),
\* and a tile that returned fewer than maxRecordCount features issues no
\* child query: the traversal goes on with the tiles already pending.
C3_Terminates ==
    [][ /\ Measure' < Measure
        /\ Measure' >= 0
        /\ LeafTile => stack' = Tail(stack) ]_vars

\* a leaf tile has just completed below a tile that was split
C3_Witness ==
    /\ pc = "request"
    /\ Len(rows) >= max_record_count
    /\ Len(stack) \in 1..3
    /\ tries = Tries

\* C4: a tile's query is sent at most 3 times.
C4_AtMostThreeRequests == Tries - tries <= 3

\* C5: when every permitted attempt of a tile's query has failed, the
\* acquisition ends with DownloadError and nothing else.
C5_ExhaustionRaisesDownloadError ==
    (Ended /\ response # NoResponse /\ IsFailure(response)) => err = "DownloadError"

(***************************************************************************)
(* Properties of compare_cache_details and cache() (SpecCache, SpecRace).  *)
(***************************************************************************)
\* the declared data names an http reference and the artifact's own digest
DeclaredMatches(p) ==
    /\ Scheme(data[p].cache) = "http"
    /\ data[p].fingerprint = Md5(artifact[p])

\* the store entry an artifact path is promoted to
EntryOf(path) == Abspath(Join(ResultDir, Basename(path)))

StoreEntries == {q \in DOMAIN files : IsPrefix(Abspath(ResultDir), q)}

\* C6: with an http reference and a matching fingerprint declared, the call
\* returns the declared pair, makes no change to the store and leaves the
\* artifact at its scratch path.
C6_ShortCircuit ==
    \A p \in procs :
        (cpc[p] = "returned" /\ DeclaredMatches(p)) =>
            /\ result[p] = <<data[p].cache, data[p].fingerprint>>
            /\ ops[p] = <<>>
            /\ filepath[p] \in DOMAIN files
            /\ files[filepath[p]] = artifact[p]

\* a call has short-circuited while the store directory does not exist
C6_Witness ==
    \E p \in procs :
        /\ cpc[p] = "returned"
        /\ DeclaredMatches(p)
        /\ Abspath(ResultDir) \notin dirs

\* C7: a call that returns without short-circuiting has promoted by move.
C7_PromoteByMove ==
    \A p \in procs :
        (cpc[p] = "returned" /\ ~DeclaredMatches(p)) =>
            /\ Abspath(ResultDir) \in dirs
            /\ EntryOf(filepath[p]) \in DOMAIN files
            /\ files[EntryOf(filepath[p])] = artifact[p]
            /\ filepath[p] \notin DOMAIN files
            /\ result[p] = <<[scheme |-> "file", rest |-> EntryOf(filepath[p])],
                             Md5(artifact[p])>>

\* a call has created the store directory and promoted into it, although the
\* declared fingerprint matched (under a reference that is not http)
C7_Witness ==
    \E p \in procs :
        /\ cpc[p] = "returned"
        /\ ops[p] = <<"mkdir", "create">>
        /\ data[p].fingerprint = Md5(artifact[p])
        /\ Scheme(data[p].cache) = "https"

\* C8: a call whose artifact path does not exist fails with the hard error,
\* whatever is declared, and has made no change to the store.
C8_MissingArtifact ==
    \A p \in procs :
        (artifact[p] = Missing /\ filepath[p] # NoPath /\ cpc[p] \notin {"idle", "exists"}) =>
            /\ cpc[p] = "error"
            /\ cerr[p] = "Exception"
            /\ ops[p] = <<>>

\* a call without artifact has failed although an http reference and a
\* fingerprint were declared, and the store directory does not exist
C8_Witness ==
    \E p \in procs :
        /\ cpc[p] = "error"
        /\ artifact[p] = Missing
        /\ Scheme(data[p].cache) = "http"
        /\ data[p].fingerprint # NoFingerprint
        /\ Abspath(ResultDir) \notin dirs

\* C9 as claimed: an entry of the store never changes and is never removed.
C9_Immutable ==
    [][\A q \in StoreEntries : q \in DOMAIN files' /\ files'[q] = files[q]]_vars

\* C9 as amended: an entry of the store is never removed, and its content
\* changes only when a call promotes an artifact of the same basename, to
\* the bytes of that artifact.
C9_ReplacedOnlyByPromotion ==
    [][\A q \in StoreEntries :
          /\ q \in DOMAIN files'
          /\ files'[q] # files[q] =>
                \E p \in procs :
                    /\ cpc[p] = "move" /\ cpc'[p] = "returned"
                    /\ EntryOf(filepath[p]) = q
                    /\ files'[q] = artifact[p]]_vars

\* a second call has replaced the entry of an earlier one
C9_Witness ==
    \E p \in procs :
        /\ cpc[p] = "returned"
        /\ ops[p] = <<"replace">>
        /\ runs[p] = 2

\* C10: two sessions for different sources, each with an artifact, both
\* complete without error, and each entry holds the artifact of its source.
C10_NeverCollide ==
    \A p \in procs :
        /\ (cpc[p] = "error" => artifact[p] = Missing)
        /\ (cpc[p] = "returned" /\ ops[p] # <<>>) =>
               files[EntryOf(filepath[p])] = artifact[p]

(***************************************************************************)
(* Properties of the download tasks (SpecDownload).                        *)
(***************************************************************************)
\* C11: from_type_string maps "http" and "ftp", in any letter case, to a
\* URLDownloadTask and "esri", in any letter case, to an
\* EsriRestDownloadTask, each carrying the source prefix it was given; for
\* every other string it raises KeyError and no task is constructed.
C11_Dispatch ==
    (dpc = "ready" \/ (dpc = "error" /\ calls = 0)) =>
        /\ type_string \in {"http", "HTTP", "ftp", "Ftp"} =>
              /\ dpc = "ready"
              /\ task = [class |-> "URLDownloadTask", source_prefix |-> source_prefix]
        /\ type_string \in {"esri", "ESRI"} =>
              /\ dpc = "ready"
              /\ task = [class |-> "EsriRestDownloadTask", source_prefix |-> source_prefix]
        /\ type_string \notin {"http", "HTTP", "ftp", "Ftp", "esri", "ESRI"} =>
              /\ dpc = "error"
              /\ derr = "KeyError"
              /\ task = NoTask

\* a type string in mixed case has been dispatched with a source prefix
C11_Witness ==
    /\ dpc = "ready"
    /\ type_string = "Ftp"
    /\ source_prefix = "us-ca"
    /\ task.class = "URLDownloadTask"

\* C12 as claimed: for a URL whose computed destination exists, the pass of
\* the loop sends no request at all (not even the partial fetch of the
\* resolver), leaves the files as they are and reports the destination.
C12_NetworkFree ==
    [][ /\ ( /\ dpc = "url" /\ task.class = "URLDownloadTask"
             /\ dpc' = "fetch" /\ file_path' \in DOMAIN downloads ) =>
                net' = net
        /\ ( dpc = "fetch" /\ file_path \in DOMAIN downloads ) =>
                /\ net' = net
                /\ downloads' = downloads
                /\ output_files' = Append(output_files, file_path) ]_vars

\* C12 as amended: for a URL whose computed destination exists, no transfer
\* request is sent; no request at all is sent when the URL has no query
\* string and a path extension that is trusted (else the resolver made its
\* partial fetch to compute the destination); and for a URL that is not a
\* file:// URL the files stay as they are and the destination is reported.
C12_NoTransferWhenPresent ==
    [][ /\ ( /\ dpc = "url" /\ task.class = "URLDownloadTask"
             /\ dpc' = "fetch" /\ file_path' \in DOMAIN downloads
             /\ source_urls[url_i].query = ""
             /\ source_urls[url_i].ext \in {".zip", ".csv"} ) =>
                net' = net
        /\ ( dpc = "fetch" /\ file_path \in DOMAIN downloads ) =>
                /\ net' = net
                /\ source_urls[url_i].scheme # "file" =>
                      /\ downloads' = downloads
                      /\ output_files' = Append(output_files, file_path) ]_vars

\* a re-run has ended in which the first URL, with a trusted extension, was
\* passed over without a request and the second was passed over after the
\* partial fetch of the resolver
C12_Witness ==
    /\ dpc = "returned"
    /\ calls = 2
    /\ task.class = "URLDownloadTask"
    /\ Len(source_urls) = 2
    /\ source_urls[1].ext = ".zip" /\ source_urls[1].scheme = "http"
    /\ source_urls[2].ext = ".php"
    /\ net = 1
    /\ status = 0
    /\ Len(output_files) = 2

\* C13: a response with a status from 400 to 499 ends the call with
\* DownloadError and no file is written for the URL.
C13_Every4xxRaises ==
    status \in 400..499 =>
        /\ dpc = "error"
        /\ derr = "DownloadError"
        /\ file_path \notin DOMAIN downloads

\* C14: a response whose status is not 2xx ends the call with DownloadError.
C14_NonSuccessRaises ==
    (status # 0 /\ status \notin 200..299) => (dpc = "error" /\ derr = "DownloadError")

\* the destinations get_file_path can compute for a URL
Destinations(t, url) ==
    IF t.class = "EsriRestDownloadTask"
    THEN {EsriFilePath(t, url)}
    ELSE {Join(DownloadPath("http"), NameBase(t, url) \o e) :
             e \in {".zip", ".csv", ".txt"}}

\* C16: for both task variants the paths reported so far are one per URL
\* handled, the i-th a destination of the i-th URL, and a call that returns
\* has reported one path for every URL given.
C16_OnePathPerUrl ==
    /\ dpc \in {"url", "fetch", "returned"} => Len(output_files) = url_i - 1
    /\ dpc = "returned" => Len(output_files) = Len(source_urls)
    /\ \A i \in DOMAIN output_files :
          output_files[i] \in Destinations(task, source_urls[i])

\* a re-run has returned two different paths, the first for a URL it passed
\* over and the second for a URL it fetched
C16_Witness ==
    /\ dpc = "returned"
    /\ calls = 2
    /\ Len(output_files) = 2
    /\ output_files[1] # output_files[2]
    /\ net = 1
    /\ status = 200

(***************************************************************************)
(* Properties of the ESRI metadata checks and of the output file           *)
(* (SpecEsriSmall, SpecEsri).                                              *)
(***************************************************************************)
\* an answer to f=json of one of the kinds the validation names
BadMetadata ==
    \/ metadata.status # 200
    \/ metadata.error
    \/ metadata.fields = <<>>
    \/ \A i \in DOMAIN metadata.fields : metadata.fields[i].type # "esriFieldTypeOID"
    \/ metadata.geometryType = "absent"
    \/ ~metadata.extent

\* C15: when the metadata answer is non-200, carries an error object, has
\* no fields, has no object-id field, or lacks geometryType or extent, the
\* acquisition ends with DownloadError, with no query sent and no output
\* file created.
C15_MetadataRejected ==
    (pc # "metadata" /\ BadMetadata) =>
        /\ pc = "error"
        /\ err = "DownloadError"
        /\ ~csv.created
        /\ stack = <<>>
        /\ response = NoResponse
        /\ tries = Tries

\* the derived columns a field list lacks, in the order X, Y, geometry
Lacks(fields, name) == \A i \in DOMAIN fields : fields[i].name # name

DerivedColumns(fields) ==
    (IF Lacks(fields, "X") THEN <<"X">> ELSE <<>>)
    \o (IF Lacks(fields, "Y") THEN <<"Y">> ELSE <<>>)
    \o (IF Lacks(fields, "GEOM") THEN <<"GEOM">> ELSE <<>>)

\* C19: the file of an acquisition that ended well has as header the field
\* names of the layer in their order, followed by those of X, Y and the
\* geometry column that the layer lacks, and one data row for each feature
\* retained.
C19_CsvHeaderAndRows ==
    pc = "done" =>
        /\ csv.created
        /\ csv.header = Names(metadata.fields) \o DerivedColumns(metadata.fields)
        /\ Len(csv.data) = Len(rows)
        /\ \A i \in DOMAIN csv.data : csv.data[i].oid = rows[i].oid

\* C20: no acquisition ends with the exception build_ogr_geometry raises for
\* a feature of a response (TypeError without geometry, KeyError for a
\* geometry type it does not convert).
C20_BadGeometrySkipped ==
    (pc = "error" /\ response.body = "features") => err \notin {"TypeError", "KeyError"}

(***************************************************************************)
(* Properties of the acquisition session cache() (SpecCache).              *)
(***************************************************************************)
\* the scratch directories the calls of session p have made so far
ScratchDirs(p) == {ScratchDir(p, k) : k \in 0..(runs[p] - 1)}

\* nothing is left of a scratch directory
Gone(dir) ==
    /\ dir \notin dirs
    /\ \A q \in DOMAIN files : ~IsPrefix(dir, q)

\* C17: when a session is not inside a call of cache(), whether the last
\* call returned or raised, none of the scratch directories its calls made
\* exists and no file is left in one.
C17_ScratchRemoved ==
    \A p \in procs :
        cpc[p] \in {"idle", "error"} => \A dir \in ScratchDirs(p) : Gone(dir)

\* C18: the CacheResult of a call of cache() that returned has a cache
\* reference, a fingerprint and a version, none of them null.
C18_ResultComplete ==
    \A p \in procs :
        cache_result[p] # NoCacheResult =>
            /\ cache_result[p].cache # NoCache
            /\ cache_result[p].fingerprint # NoFingerprint
            /\ cache_result[p].version # NoVersion

(***************************************************************************)
(* Properties of guess_url_file_extension within download() (SpecDownload).*)
(***************************************************************************)
\* guess_url_file_extension has been called for the URL at hand, and what it
\* came to is still at hand
Resolved == task.class = "URLDownloadTask" /\ probe # NoProbe

UrlAtHand == source_urls[url_i]

\* the scheme is none of http, https, file and the empty scheme
Unsupported(url) == url.scheme \notin {"http", "https", "file", ""}

\* no query string, and a path extension outside the meaningless set
Plain(url) == url.query = "" /\ url.ext \notin {"", ".cgi", ".php", ".aspx", ".asp", ".do"}

\* C21 as claimed: guess_url_file_extension raises for every URL of an
\* unsupported scheme, whatever its path extension and query string.
C21_UnsupportedSchemeRaises ==
    (Resolved /\ Unsupported(UrlAtHand)) => probe.raised = "ValueError"

\* C21 amended: guess_url_file_extension raises ValueError for every URL of
\* an unsupported scheme that has a query string or a meaningless path
\* extension, and the download ends with that error; a URL of an unsupported
\* scheme with no query string and a meaningful path extension is given its
\* path extension and no error.
C21_UnsupportedSchemeWhenProbed ==
    (Resolved /\ Unsupported(UrlAtHand)) =>
        IF Plain(UrlAtHand)
        THEN probe.raised = "none" /\ probe.ext = UrlAtHand.ext /\ dpc = "fetch"
        ELSE probe.raised = "ValueError" /\ dpc = "error" /\ derr = "ValueError"

\* an ftp URL without extension has been refused by the resolver
C21_Witness ==
    /\ Resolved
    /\ UrlAtHand.scheme = "ftp"
    /\ UrlAtHand.ext = ""
    /\ probe.raised = "ValueError"
    /\ derr = "ValueError"

\* C22: when the resolver establishes no extension for an HTTP URL (empty
\* response body, or neither headers nor content map to an extension), the
\* download goes on to a destination name and the transfer instead of raising.
C22_NoExtensionNotFatal ==
    (/\ Resolved
     /\ UrlAtHand.scheme \in {"http", "https"}
     /\ \/ probe.raised = "StopIteration"
        \/ probe.raised = "none" /\ probe.ext = NoExt)
    => dpc = "fetch"

\* the destination of the URL at hand, its extension that of the URL
PlainPath ==
    Join(DownloadPath("http"),
         (IF task.source_prefix = NoPrefix THEN UrlAtHand.stem
          ELSE task.source_prefix \o "-"
                 \o Sha1Hex8(UrlAtHand.host \o UrlAtHand.dir \o UrlAtHand.stem))
           \o UrlAtHand.ext)

\* the first call of download(), for one URL, on a task for URLs
FirstOfOne == task.class = "URLDownloadTask" /\ calls = 1 /\ Len(source_urls) = 1

\* C23 as claimed: for a URL with no query string and a meaningful path
\* extension the resolver returns that extension without a request or a file
\* read, and a first download of the URL sends exactly one request and returns
\* one path ending in the extension.
C23_TrustedOneRequest ==
    /\ (Resolved /\ Plain(UrlAtHand)) =>
           /\ probe.raised = "none" /\ probe.ext = UrlAtHand.ext
           /\ ~probe.fetched /\ ~probe.read
    /\ (FirstOfOne /\ Plain(source_urls[1]) /\ dpc \in {"returned", "error"}) =>
           /\ dpc = "returned"
           /\ net = 1
           /\ output_files = <<file_path>>

\* C23 amended: the resolver part as claimed; a first download of such a URL
\* sends no request but the transfer, which is one request for an http, https
\* or ftp URL and none for a file:// URL (it is copied); when it returns, it
\* returns one path ending in the extension, and it raises instead when the
\* transfer fails (no connection, a status in 400..498, a body that breaks
\* off, no local file).
C23_TrustedOneTransfer ==
    /\ (Resolved /\ Plain(UrlAtHand)) =>
           /\ probe.raised = "none" /\ probe.ext = UrlAtHand.ext
           /\ ~probe.fetched /\ ~probe.read
           /\ file_path = PlainPath
    /\ (FirstOfOne /\ Plain(source_urls[1]) /\ dpc = "returned") =>
           /\ net = (IF source_urls[1].scheme = "file" THEN 0 ELSE 1)
           /\ status \notin 400..498
           /\ output_files = <<file_path>>
           /\ file_path \in DOMAIN downloads
    /\ (FirstOfOne /\ Plain(source_urls[1]) /\ dpc = "error") =>
           /\ net <= 1
           /\ derr \in {"DownloadError", "IOError", "ConnectionError"}
           /\ output_files = <<>>

\* a first download of http://h/d/a.zip has sent one request and returned
\* one path
C23_Witness ==
    /\ FirstOfOne
    /\ dpc = "returned"
    /\ source_urls[1].scheme = "http" /\ source_urls[1].ext = ".zip"
    /\ net = 1
    /\ Len(output_files) = 1

\* the extension a Content-Type header maps to
TypeExt(content_type) ==
    CASE content_type = "text/csv" -> ".csv"
      [] content_type = "application/x-zip-compressed" -> ".zip"
      [] OTHER -> "none"

\* the extension a sniffed content type maps to
ContentExt(mime) ==
    CASE mime = "text/plain" -> ".txt"
      [] mime = "application/zip" -> ".zip"
      [] OTHER -> NoExt

\* the headers of the response name an attachment
Attachment(h) == h.disposition \notin {"absent", "inline"}

\* C24: in the header cascade, the extension of the Content-Type is returned
\* without sniffing when there is no attachment filename or its extension is
\* the same; when the attachment extension differs, the result is the
\* extension of the sniffed content; the sniffer runs exactly when the
\* headers established no extension.
C24_HeaderCascade ==
    (dpc = "resolved" /\ probe.fetched) =>
        LET h == given
            t == TypeExt(h.content_type)
            agreed == t # "none" /\ (~Attachment(h) \/ h.disposition = t)
        IN /\ ~Plain(UrlAtHand)
           /\ agreed => (probe.ext = t /\ ~probe.sniffed)
           /\ (t # "none" /\ Attachment(h) /\ h.disposition # t) =>
                  (probe.sniffed /\ probe.ext = ContentExt(h.mime))
           /\ probe.sniffed <=> ~agreed
           /\ probe.sniffed => probe.ext = ContentExt(h.mime)

\* Content-Type text/csv and an attachment data.json: the content decided
C24_Witness ==
    /\ dpc = "resolved"
    /\ probe.fetched
    /\ given = [content_type |-> "text/csv", disposition |-> ".json",
                 mime |-> "text/plain"]
    /\ probe.sniffed
    /\ probe.ext = ".txt"

(***************************************************************************)
(* Properties of the tiling, continued (SpecEsri, SpecEsriSmall).          *)
(***************************************************************************)
\* the rows a step has added to the rows retained
Added == SubSeq(rows', Len(rows) + 1, Len(rows'))

\* the mean of the X and of the Y of a sequence of rows
Mean(rs) == [x |-> Frac(SumX(rs), Len(rs)), y |-> Frac(SumY(rs), Len(rs))]

\* the four quadrants of box b about the point m, lower left, lower right,
\* upper left, upper right
SplitAt(b, m) ==
    << [xmin |-> b.xmin, ymin |-> b.ymin, xmax |-> m.x,    ymax |-> m.y],
       [xmin |-> m.x,    ymin |-> b.ymin, xmax |-> b.xmax, ymax |-> m.y],
       [xmin |-> b.xmin, ymin |-> m.y,    xmax |-> m.x,    ymax |-> b.ymax],
       [xmin |-> m.x,    ymin |-> m.y,    xmax |-> b.xmax, ymax |-> b.ymax] >>

\* the response of a tile query, with its features, is being processed
TileAnswered == pc = "process" /\ response.body = "features"

IsSuffix(s, t) == \E k \in 0..Len(t) : s = SubSeq(t, k + 1, Len(t))

\* The first query returned maxRecordCount features (a response never holds
\* more): they are the first rows retained.
FirstRows == SubSeq(rows, 1, max_record_count)
FirstTileFull == max_record_count > 0 /\ Len(rows) >= max_record_count

\* the four quadrants of the extent about the mean of the first rows
FirstQuadrants == SplitAt(extent, Mean(FirstRows))

\* C26 as claimed: after a first query that returned maxRecordCount features
\* the only queries are those of the four quadrants of the extent about the
\* mean of its rows, and the acquisition completes: no other tile is ever
\* pending and the tiling does not fail on a quadrant.
C26_ExactlyFourSubQueries ==
    FirstTileFull => (IsSuffix(stack, FirstQuadrants) /\ err # "ZeroDivisionError")

\* C26 amended: a first query that returned maxRecordCount (N) features is
\* followed by the queries of the four quadrants of the extent about the mean
\* of its N rows, in order; a quadrant that returns fewer than N features
\* adds no query, and after the last of them the tiling is complete, so there
\* are exactly 4 sub-queries when every quadrant returns fewer than N; a
\* quadrant that returns N features again adds its own four quadrants, or
\* raises ZeroDivisionError when none of its features is new.
C26_FourQuadrantsThenLeaves ==
    [][ /\ (TileAnswered /\ rows = <<>> /\ stack = <<extent>>
              /\ Cardinality(response.features) = max_record_count) =>
               /\ Len(rows') = max_record_count
               /\ stack' = SplitAt(extent, Mean(rows'))
               /\ pc' = "request"
        /\ (TileAnswered /\ FirstTileFull /\ IsSuffix(stack, FirstQuadrants)
              /\ Cardinality(response.features) < max_record_count) =>
               /\ stack' = Tail(stack)
               /\ pc' = (IF Len(stack) = 1 THEN "emit" ELSE "request")
        /\ (TileAnswered /\ FirstTileFull
              /\ Cardinality(response.features) >= max_record_count) =>
               \/ pc' = "request" /\ Len(stack') = Len(stack) + 3
               \/ /\ pc' = "error" /\ err' = "ZeroDivisionError"
                  /\ response.features \subseteq fetched_ids
      ]_vars

\* the whole layer came with the first query, maxRecordCount features, and
\* the last of the four quadrants has answered with fewer
C26_Witness ==
    /\ TileAnswered
    /\ Len(rows) = max_record_count
    /\ Len(layer) = max_record_count
    /\ max_record_count > 1
    /\ stack = <<FirstQuadrants[4]>>
    /\ Cardinality(response.features) < max_record_count

\* the number of requests sent for the tile at hand
Attempts == Tries - tries

Midpoint(o) ==
    [x |-> (Envelope(o).xmin + Envelope(o).xmax) \div 2,
     y |-> (Envelope(o).ymin + Envelope(o).ymax) \div 2]

\* the features of the layer that meet the extent and whose ring is degenerate
Rings == {o \in Matching(extent) : shape[o] = "ring"}

\* a feature with a degenerate ring is retained by the tiling, with the
\* middle of its envelope for X and Y, and registered as seen
RingsRetained ==
    \A o \in Rings :
        /\ o \in fetched_ids
        /\ \E i \in DOMAIN rows :
              rows[i] = [oid |-> o, X |-> Midpoint(o).x, Y |-> Midpoint(o).y]

\* C28: an acquisition that completes has retained every feature with a
\* degenerate ring, with X and Y the middle of its envelope, has registered
\* its object-id, and has written a data row for it to the CSV.
C28_DegenerateRingEmitted ==
    pc = "done" =>
        /\ RingsRetained
        /\ \A o \in Rings : \E j \in DOMAIN csv.data : csv.data[j].oid = o

(***************************************************************************)
(* Promotion, continued (SpecCache).                                       *)
(***************************************************************************)
\* the prior reference of the call is not an http reference (urlparse gives
\* the scheme in lower case), or there is none
NotHttp(p) == data[p].cache.scheme \notin {"http", "HTTP"}

\* C29: a call with a prior reference of another scheme than http, or with
\* none, that returns has moved the artifact into the store and returns the
\* file:// reference of the entry with the computed fingerprint, whether or
\* not the declared fingerprint is the computed one.
C29_NonHttpRePromoted ==
    \A p \in procs :
        (cpc[p] = "returned" /\ NotHttp(p)) =>
            /\ ops[p] # <<>>
            /\ ops[p][Len(ops[p])] \in {"create", "replace"}
            /\ filepath[p] \notin DOMAIN files
            /\ files[EntryOf(filepath[p])] = artifact[p]
            /\ result[p][1] = [scheme |-> "file", rest |-> EntryOf(filepath[p])]
            /\ result[p][2] = Md5(artifact[p])

\* a call with a file:// prior reference and the matching fingerprint has
\* replaced the entry of the store
C29_Witness ==
    \E p \in procs :
        /\ cpc[p] = "returned"
        /\ data[p].cache.scheme = "file"
        /\ data[p].fingerprint = Md5(artifact[p])
        /\ ops[p] = <<"replace">>

(***************************************************************************)
(* The boxes of the tiling (SpecEsriSmall).                                *)
(***************************************************************************)
WellFormed(b) == Leq(b.xmin, b.xmax) /\ Leq(b.ymin, b.ymax)

\* box b lies in box parent
Inside(b, parent) ==
    /\ Leq(parent.xmin, b.xmin) /\ Leq(b.xmax, parent.xmax)
    /\ Leq(parent.ymin, b.ymin) /\ Leq(b.ymax, parent.ymax)

\* the point [x, y] lies in one of the boxes bs
Covered(x, y, bs) ==
    \E i \in DOMAIN bs :
        /\ Leq(bs[i].xmin, x) /\ Leq(x, bs[i].xmax)
        /\ Leq(bs[i].ymin, y) /\ Leq(y, bs[i].ymax)

\* the boxes a step has put in place of the tile at hand
Children == SubSeq(stack', 1, Len(stack') - Len(stack) + 1)

\* the centroid of every feature of the layer lies in the extent
CentroidsInExtent ==
    \A o \in DOMAIN layer :
        /\ Leq(extent.xmin, Whole(layer[o].x)) /\ Leq(Whole(layer[o].x), extent.xmax)
        /\ Leq(extent.ymin, Whole(layer[o].y)) /\ Leq(Whole(layer[o].y), extent.ymax)

\* C30: for a layer whose features have their centroids in the extent, every
\* box queried is well formed and lies in the extent; the boxes that replace
\* a subdivided tile lie in it, and every corner of the tile and the pivot
\* lie in one of them.
C30_TilesWellFormed ==
    /\ [](CentroidsInExtent =>
             \A i \in DOMAIN stack : WellFormed(stack[i]) /\ Inside(stack[i], extent))
    /\ [][ (CentroidsInExtent /\ pc = "process" /\ Len(stack') > Len(stack)) =>
              /\ \A i \in DOMAIN Children : Inside(Children[i], Head(stack))
              /\ \A x \in {Head(stack).xmin, Head(stack).xmax, Mean(Added).x} :
                 \A y \in {Head(stack).ymin, Head(stack).ymax, Mean(Added).y} :
                    Covered(x, y, Children) ]_vars

(***************************************************************************)
(* The pivot (SpecEsri).                                                   *)
(***************************************************************************)
\* C31: a tile that returned at least maxRecordCount features has a feature
\* that was not seen before among them, and no acquisition ends with the
\* division by zero of the mean.
C31_PivotAlwaysDefined ==
    /\ (TileAnswered /\ Cardinality(response.features) >= max_record_count) =>
           response.features \ fetched_ids # {}
    /\ err # "ZeroDivisionError"

(***************************************************************************)
(* The files download() leaves (SpecDownload).                             *)
(***************************************************************************)
\* C32: a pass of download() that fails leaves no file it has begun to
\* write: the files of the download directories are those there were before
\* the pass, so a file found by a later call is one a pass completed.
C32_NoPartialFile ==
    [][ (dpc \in {"url", "fetch"} /\ dpc' = "error") => downloads' = downloads ]_vars

(***************************************************************************)
(* The names get_file_path gives (SpecDownload).                           *)
(***************************************************************************)
\* no URL is given twice to the call of download()
DistinctUrls == \A i, j \in DOMAIN source_urls : source_urls[i] = source_urls[j] => i = j

\* C33: a first call of download(), into an empty download directory and
\* over URLs that are pairwise distinct, returns one path for each URL and
\* the paths are pairwise distinct: no URL is answered with the file of
\* another URL.
C33_DistinctPaths ==
    (calls = 1 /\ dpc = "returned" /\ DistinctUrls) =>
        /\ Len(output_files) = Len(source_urls)
        /\ \A i, j \in DOMAIN output_files : output_files[i] = output_files[j] => i = j

(***************************************************************************)
(* process(): a failure of the acquisition (SpecProcess).                  *)
(***************************************************************************)
\* cache() raised an exception that derives from Exception
AcquisitionFailed == raised.stage = "cache" /\ raised.e \in ExceptionClasses

\* C34: when cache() fails, process() does not: conform and the previews
\* are not called, the handler process() added to the logger is removed,
\* process() goes on to write the state, the state it returns has no cache
\* and no fingerprint, the temporary directory is gone and the path of the
\* state is the value returned.  The handler is removed on every way out
\* of the try, the way of a success and that of an interrupt of cache()
\* (which is no failure of the acquisition, and is passed on) included.
C34_AcquisitionFailureContained ==
    /\ AcquisitionFailed =>
           /\ invoked = {"cache"}
           /\ LogHandler \notin logger_handlers
           /\ ppc \in {"write_state", "returned"}
           /\ perr = "none"
           /\ ppc = "returned" =>
                  /\ state # NoState
                  /\ state.cache = "None"
                  /\ state.fingerprint = "None"
                  /\ ~temp_dir
                  /\ state_path = StatePath
    /\ (ppc \in {"write_state", "returned"} \/ raised # NoRaise) =>
           LogHandler \notin logger_handlers

\* cache() raised DownloadError and process() has returned
C34_Witness ==
    /\ raised = [stage |-> "cache", e |-> "DownloadError"]
    /\ ppc = "returned"
    /\ state.cache = "None"
    /\ "other" \in logger_handlers

(***************************************************************************)
(* iterate_local_processed_files: one result for a run, and the files of   *)
(* the attempts (SpecIterate).                                             *)
(***************************************************************************)
\* C35: the runs are handled one by one: only runs with a processed URL
\* are downloaded and yielded, each at most once and after at most three
\* attempts; the file of a yielded result is there until the consumer
\* resumes; and between two runs, and at the end, no processed-* file is
\* left, neither that of a yielded result nor that of a failed attempt.
C35_RunsIndependent ==
    /\ attempt <= DownloadTries
    /\ \A k \in DOMAIN yielded : run_list[yielded[k]].processed
    /\ \A k, l \in DOMAIN yielded : yielded[k] = yielded[l] => k = l
    /\ \A f \in temp_files : run_list[f.run].processed
    /\ ipc = "yielded" => filename \in temp_files /\ filename.whole
    /\ ipc \in {"run", "done"} => temp_files = {}
====
